---- MODULE Spec2Model ----
(***************************************************************************)
(* SIGHT firmware v1.9 (sight/sight.ino): the configuration record, its    *)
(* persistence (save / load / hex export / hex import), the serial command *)
(* dispatcher, the timer callbacks and the group renderer, as one state    *)
(* machine.  Characters are ASCII codes, C strings are read out of the     *)
(* input buffer up to the first 0 byte, and the configuration record is    *)
(* converted to and from the byte layout of struct LedData.                *)
(***************************************************************************)
EXTENDS Integers, Sequences, FiniteSets, TLC

(***************************************************************************)
(* Program constants (the #defines of sight.ino).                          *)
(***************************************************************************)
IDENTIFIER_MAX_LENGTH == 16
NUM_LEDS_PER_CHANNEL_DEFAULT == 57
NUM_LEDS_PER_CHANNEL_MIN == 6
NUM_LEDS_PER_CHANNEL_MAX == 600
NUM_CHANNELS_DEFAULT == 8
NUM_CHANNELS_MAX == 8
NUM_GROUPS_PER_CHANNEL_DEFAULT == 6
NUM_GROUPS_PER_CHANNEL_MAX == 100
SPACER_WIDTH_DEFAULT == 1
SPACER_WIDTH_MAX == 20
START_OFFSET == 1
START_OFFSET_MAX == 9
MAX_STATE == 9
MIN_GROUP_ID == 1
MAX_STATE_VALUE == 9
MAX_GROUPS == 800
BLINK_INTERVAL == 200
BLINK_INTERVAL_MIN == 50
BLINK_INTERVAL_MAX == 3000
ANIMATE_INTERVAL == 150
ANIMATE_INTERVAL_MIN == 10
ANIMATE_INTERVAL_MAX == 1000
UPDATE_INTERVAL == 25
UPDATE_INTERVAL_MIN == 5
UPDATE_INTERVAL_MAX == 500
BRIGHTNESS == 255
BRIGHTNESS_MIN == 10
BRIGHTNESS_MAX == 255
FADING == 48
FADING_2STEP == 24
GPIO_PIN_MIN == 2
GPIO_PIN_MAX == 26
CPULED_GPIO == 16
MAX_INPUT_LEN == 512
DIGEST_LEN == 32
MAX_PATTERN == 12

(***************************************************************************)
(* Characters.  A character is its ASCII code; Str turns a TLA+ string     *)
(* literal into the sequence of the codes of its characters.               *)
(***************************************************************************)
\* codes 32..95, and 97..126 (the back-quote, code 96, is left out)
AsciiLow == " !\"#$%&'()*+,-./0123456789:;<=>?@ABCDEFGHIJKLMNOPQRSTUVWXYZ[\\]^_"
AsciiHigh == "abcdefghijklmnopqrstuvwxyz{|}~"

CodeOf ==
    [c \in {SubSeq(AsciiLow, i, i) : i \in 1..Len(AsciiLow)}
           \cup {SubSeq(AsciiHigh, i, i) : i \in 1..Len(AsciiHigh)} |->
        IF \E i \in 1..Len(AsciiLow) : SubSeq(AsciiLow, i, i) = c
        THEN 31 + (CHOOSE i \in 1..Len(AsciiLow) : SubSeq(AsciiLow, i, i) = c)
        ELSE 96 + (CHOOSE i \in 1..Len(AsciiHigh) : SubSeq(AsciiHigh, i, i) = c)]

Ord(c) == CodeOf[c]

Str(s) == [i \in 1..Len(s) |-> Ord(SubSeq(s, i, i))]

NUL == 0
ETX == 3
BS  == 8
LF  == 10
CR  == 13
ESC == 27

Byte == 0..255

IsDigit(c) == c >= Ord("0") /\ c <= Ord("9")

IsSpace(c) == c = 32 \/ (c >= 9 /\ c <= 13)

IsHexChar(c) ==
    \/ (c >= Ord("0") /\ c <= Ord("9"))
    \/ (c >= Ord("A") /\ c <= Ord("F"))
    \/ (c >= Ord("a") /\ c <= Ord("f"))

HexVal(c) ==
    IF c >= Ord("0") /\ c <= Ord("9") THEN c - Ord("0")
    ELSE IF c >= Ord("A") /\ c <= Ord("F") THEN c - Ord("A") + 10
    ELSE c - Ord("a") + 10

\* Serial.print(byte, HEX): upper-case digits, no leading zero
HexDigit(n) == IF n < 10 THEN Ord("0") + n ELSE Ord("A") + (n - 10)

isPrintable(c) == c >= 32 /\ c < 126 /\ c # 92 /\ c # 96

(***************************************************************************)
(* struct LedData and its byte layout.                                     *)
(***************************************************************************)
Black      == <<0, 0, 0>>
Green      == <<0, 128, 0>>
DarkOrange == <<255, 140, 0>>
Red        == <<255, 0, 0>>
Blue       == <<0, 0, 255>>
White      == <<255, 255, 255>>

Pad(s, n) == s \o [i \in 1..(n - Len(s)) |-> 0]

IDENTIFIER_DEFAULT == Str("SIGHT v1.9")

\* the member initialisers of struct LedData (LedConfig = {})
LedData ==
    [ identifier          |-> Pad(IDENTIFIER_DEFAULT, IDENTIFIER_MAX_LENGTH),
      numLedsPerChannel   |-> NUM_LEDS_PER_CHANNEL_DEFAULT,
      numChannels         |-> NUM_CHANNELS_DEFAULT,
      numGroupsPerChannel |-> NUM_GROUPS_PER_CHANNEL_DEFAULT,
      spacerWidth         |-> SPACER_WIDTH_DEFAULT,
      startOffset         |-> START_OFFSET,
      blinkinterval       |-> BLINK_INTERVAL,
      animateinterval     |-> ANIMATE_INTERVAL,
      updateinterval      |-> UPDATE_INTERVAL,
      brightness          |-> BRIGHTNESS,
      fadingAnimation     |-> FADING,
      fading2Step         |-> FADING_2STEP,
      startupAnimation    |-> 1,
      CommandEcho         |-> 0,
      channelGPIOpin      |-> <<2, 3, 4, 5, 6, 7, 8, 9>>,
      state_pattern       |-> <<0, 0, 0, 0, 0, 1, 1, 1, 1, 0, 0, 0>>,
      state_color         |-> <<Black, Green, DarkOrange, Red, Blue,
                                Green, DarkOrange, Red, Blue, White>>,
      channelOrder        |-> <<1, 2, 3, 4, 5, 6, 7, 8>> ]

\* a uint16_t member in memory (little endian, Cortex-M0+)
LE16(v) == <<v % 256, v \div 256>>

RECURSIVE Flatten(_)
Flatten(ss) == IF ss = <<>> THEN <<>> ELSE Head(ss) \o Flatten(Tail(ss))

\* (uint8_t*)&LedConfig : the bytes of the record, member after member
ToBytes(c) ==
    c.identifier
    \o LE16(c.numLedsPerChannel)
    \o <<c.numChannels, c.numGroupsPerChannel, c.spacerWidth, c.startOffset>>
    \o LE16(c.blinkinterval) \o LE16(c.animateinterval) \o LE16(c.updateinterval)
    \o LE16(c.brightness) \o LE16(c.fadingAnimation) \o LE16(c.fading2Step)
    \o <<c.startupAnimation, c.CommandEcho>>
    \o c.channelGPIOpin
    \o c.state_pattern
    \o Flatten(c.state_color)
    \o c.channelOrder

\* RD16 with the two bytes taken in the other order
RD16_BigEndian(b, o) == 256 * b[o + 1] + b[o + 2]

RD16(b, o) == b[o + 1] + 256 * b[o + 2]

\* the record read back out of sizeof(LedData) bytes (memcpy into LedConfig)
FromBytes(b) ==
    [ identifier          |-> SubSeq(b, 1, 16),
      numLedsPerChannel   |-> RD16(b, 16),
      numChannels         |-> b[19],
      numGroupsPerChannel |-> b[20],
      spacerWidth         |-> b[21],
      startOffset         |-> b[22],
      blinkinterval       |-> RD16(b, 22),
      animateinterval     |-> RD16(b, 24),
      updateinterval      |-> RD16(b, 26),
      brightness          |-> RD16(b, 28),
      fadingAnimation     |-> RD16(b, 30),
      fading2Step         |-> RD16(b, 32),
      startupAnimation    |-> b[35],
      CommandEcho         |-> b[36],
      channelGPIOpin      |-> SubSeq(b, 37, 44),
      state_pattern       |-> SubSeq(b, 45, 56),
      state_color         |-> [i \in 1..10 |-> SubSeq(b, 54 + 3 * i, 56 + 3 * i)],
      channelOrder        |-> SubSeq(b, 87, 94) ]

SizeofLedData == Len(ToBytes(LedData))


(***************************************************************************)
(* C strings in the input buffer.  buf is the content of inputBuffer with  *)
(* the trailing zero bytes left off; a pointer is an index from 0.         *)
(***************************************************************************)
At(buf, i) == IF i >= 0 /\ i < Len(buf) THEN buf[i + 1] ELSE 0

RECURSIVE RTrim(_)
RTrim(buf) ==
    IF buf # <<>> /\ buf[Len(buf)] = 0 THEN RTrim(SubSeq(buf, 1, Len(buf) - 1)) ELSE buf

\* inputBuffer[i] = v
Poke(buf, i, v) ==
    LET wide == IF i < Len(buf) THEN buf ELSE Pad(buf, i + 1)
    IN  RTrim([wide EXCEPT ![i + 1] = v])

strlen(buf, p) ==
    IF p >= Len(buf) \/ p < 0 THEN 0
    ELSE LET zs == {i \in p..Len(buf) : At(buf, i) = 0}
         IN  (CHOOSE i \in zs : \A j \in zs : i <= j) - p

CString(buf, p) == SubSeq(buf, p + 1, p + strlen(buf, p))

\* strncmp(p, lit, Len(lit)) == 0
HasPrefix(buf, p, lit) == \A i \in 1..Len(lit) : At(buf, p + i - 1) = lit[i]

\* strcmp(p, lit) == 0
StrEq(buf, p, lit) == HasPrefix(buf, p, lit) /\ At(buf, p + Len(lit)) = 0

INT_MAX == 2147483647
TWO24 == 16777216

RECURSIVE SkipSpace(_, _)
SkipSpace(buf, p) == IF IsSpace(At(buf, p)) THEN SkipSpace(buf, p + 1) ELSE p

addDigit(acc, d) == IF acc > (INT_MAX - d) \div 10 THEN INT_MAX ELSE acc * 10 + d

\* decimal digits from p, at most w of them (w < 0: no limit); the magnitude
\* saturates at INT_MAX, as strtol's result does
RECURSIVE Digits(_, _, _, _, _)
Digits(buf, p, w, n, acc) ==
    IF w # 0 /\ IsDigit(At(buf, p))
    THEN Digits(buf, p + 1, w - 1, n + 1, addDigit(acc, At(buf, p) - Ord("0")))
    ELSE [n |-> n, val |-> acc, next |-> p]

\* the value of an expression, named for the text that follows
With(v, F(_)) == F(v)

\* the digits found, with the sign that went before them
scanResult(neg, d) ==
    [ok |-> d.n > 0, val |-> IF neg THEN 0 - d.val ELSE d.val, next |-> d.next]

\* an optional sign at q (it counts in the width), then digits
scanSigned(buf, q, w) ==
    IF At(buf, q) = Ord("-") \/ At(buf, q) = Ord("+")
    THEN scanResult(At(buf, q) = Ord("-"),
                    Digits(buf, q + 1, IF w > 0 THEN w - 1 ELSE w, 0, 0))
    ELSE scanResult(FALSE, Digits(buf, q, w, 0, 0))

\* one %d / %<w>d conversion of sscanf, or the number atoi reads:
\* white space, an optional sign, digits
ScanInt(buf, p, w) == scanSigned(buf, SkipSpace(buf, p), w)

valueOrZero(r) == IF r.ok THEN r.val ELSE 0

atoi(buf, p) == valueOrZero(ScanInt(buf, p, -1))

\* one more hexadecimal digit on a 32-bit value kept as hi * 2^24 + lo;
\* it saturates at ULONG_MAX
hexShift(hi, x) ==
    IF hi * 16 + (x \div TWO24) > 255 THEN [hi |-> 255, lo |-> TWO24 - 1]
    ELSE [hi |-> hi * 16 + (x \div TWO24), lo |-> x % TWO24]

hexStep(v, c) == hexShift(v.hi, v.lo * 16 + HexVal(c))

\* hexadecimal digits from p
RECURSIVE HexDigits(_, _, _, _)
HexDigits(buf, p, n, v) ==
    IF IsHexChar(At(buf, p))
    THEN HexDigits(buf, p + 1, n + 1, hexStep(v, At(buf, p)))
    ELSE [n |-> n, hi |-> v.hi, lo |-> v.lo]

\* the unsigned value of the digits d, negated where a minus sign went before
hexResult(neg, d) ==
    IF d.n = 0 THEN [hi |-> 0, lo |-> 0]
    ELSE IF neg
         THEN [hi |-> (255 - d.hi + (IF d.lo = 0 THEN 1 ELSE 0)) % 256,
               lo |-> (TWO24 - d.lo) % TWO24]
         ELSE [hi |-> d.hi, lo |-> d.lo]

\* an optional 0x / 0X at q1, then the digits
hexBody(buf, q1) ==
    IF At(buf, q1) = Ord("0")
       /\ (At(buf, q1 + 1) = Ord("x") \/ At(buf, q1 + 1) = Ord("X"))
       /\ IsHexChar(At(buf, q1 + 2))
    THEN HexDigits(buf, q1 + 2, 0, [hi |-> 0, lo |-> 0])
    ELSE HexDigits(buf, q1, 0, [hi |-> 0, lo |-> 0])

hexSigned(buf, q) ==
    IF At(buf, q) = Ord("-") \/ At(buf, q) = Ord("+")
    THEN hexResult(At(buf, q) = Ord("-"), hexBody(buf, q + 1))
    ELSE hexResult(FALSE, hexBody(buf, q))

\* strtoul(p, NULL, 16) as a uint32_t: [hi |-> bits 24..31, lo |-> bits 0..23]
strtoul16(buf, p) == hexSigned(buf, SkipSpace(buf, p))

\* strchr(p, c): the index of the first c of the string at p, or -1
RECURSIVE strchr(_, _, _)
strchr(buf, p, c) ==
    IF At(buf, p) = c THEN p
    ELSE IF At(buf, p) = 0 THEN -1
    ELSE strchr(buf, p + 1, c)


(***************************************************************************)
(* The program state as one record s, so that a handler is an operator     *)
(* from state to state:                                                    *)
(*   cfg           LedConfig                                               *)
(*   TermState, TermPct   the group state table, indexed 0..MAX_GROUPS-1   *)
(*   inputBuffer, bufferIndex   the pending input line                     *)
(*   timers        the period each Ticker is attached with                 *)
(*   leds          the pixel buffers: (channel, index) |-> colour for the  *)
(*                 pixels that are not black                               *)
(*   fastled       what setup() registered with FastLED: the channels and  *)
(*                 the length of each registered buffer, the brightness    *)
(*   file          /config.bin in flash                                    *)
(*   out           the last message printed                                *)
(*   exported      the last CONFIG: line printed by Se and the record it   *)
(*                 was printed from                                        *)
(*   lastInput     the line last handed to checkInput                      *)
(*   saved         the record held by the last successful S                *)
(*   wentDark      the last render turned a lit pixel black                *)
(*   painted       FastLED.show() ran in the last step                     *)
(*   due           a refresh tick came after the last render began         *)
(*                 (render), a state-push tick after the last paint began  *)
(*                 (paint)                                                 *)
(***************************************************************************)
NoFile    == [kind |-> "none"]
EmptyFile == [kind |-> "empty"]

\* SHA-256 of a byte string, taken as collision free: the digest names its input
SHA256(bytes) == <<"sha256", bytes>>

Blob(bytes, digest) == [kind |-> "blob", data |-> bytes, digest |-> digest]

Say(s, msg) == [s EXCEPT !.out = msg]

\* FastLED.clearData(): zeroes every buffer registered at setup, over its registered length
clearData(s) ==
    [s EXCEPT !.leds =
        [k \in {q \in DOMAIN s.leds :
                  ~(q[1] \in s.fastled.chans /\ q[2] < s.fastled.nLeds)} |-> s.leds[k]]]

U8(v) == v % 256

SetNth(seq, i, v) == [seq EXCEPT ![i] = v]

(***************************************************************************)
(* setConfigParameters: one operator per configuration item.  V is the     *)
(* index of Value in the input buffer.                                     *)
(***************************************************************************)
Set_n(s, V) ==
    IF strlen(s.inputBuffer, V) < IDENTIFIER_MAX_LENGTH
    THEN Say([s EXCEPT !.cfg.identifier =
                 Pad(CString(s.inputBuffer, V), IDENTIFIER_MAX_LENGTH)], "Controller Name (ID)")
    ELSE Say(s, "Identifier too long")

Set_l(s, V) ==
    With(atoi(s.inputBuffer, V), LAMBDA ValueInt :
        IF ValueInt >= NUM_LEDS_PER_CHANNEL_MIN /\ ValueInt <= NUM_LEDS_PER_CHANNEL_MAX
        THEN clearData(Say([s EXCEPT !.cfg.numLedsPerChannel = ValueInt], "LEDs per channel"))
        ELSE Say(s, "Invalid number of leds per channel"))

Set_t(s, V) ==
    With(atoi(s.inputBuffer, V), LAMBDA ValueInt :
        IF ValueInt >= 1 /\ ValueInt <= NUM_GROUPS_PER_CHANNEL_MAX
        THEN IF s.cfg.numChannels * ValueInt > MAX_GROUPS
             THEN Say(s, "ERROR: exceeds MAX_GROUPS")
             ELSE clearData(Say([s EXCEPT !.cfg.numGroupsPerChannel = ValueInt],
                                "Groups per channel"))
        ELSE Say(s, "Invalid number of groups per channel"))

Set_s(s, V) ==
    With(atoi(s.inputBuffer, V), LAMBDA ValueInt :
        IF ValueInt >= 1 /\ ValueInt <= NUM_CHANNELS_MAX
        THEN IF ValueInt * s.cfg.numGroupsPerChannel > MAX_GROUPS
             THEN Say(s, "ERROR: exceeds MAX_GROUPS")
             ELSE clearData(Say([s EXCEPT !.cfg.numChannels = ValueInt],
                                "Amount of channels"))
        ELSE Say(s, "Invalid number of channels"))

Set_w(s, V) ==
    With(atoi(s.inputBuffer, V), LAMBDA ValueInt :
        IF ValueInt >= 0 /\ ValueInt <= SPACER_WIDTH_MAX
        THEN clearData(Say([s EXCEPT !.cfg.spacerWidth = ValueInt], "Spacer width"))
        ELSE Say(s, "Invalid space width"))

Set_o(s, V) ==
    With(atoi(s.inputBuffer, V), LAMBDA ValueInt :
        IF ValueInt >= 0 /\ ValueInt <= START_OFFSET_MAX
        THEN clearData(Say([s EXCEPT !.cfg.startOffset = ValueInt], "Start offset"))
        ELSE Say(s, "Invalid start offset"))

\* Ticker::attach_ms(period, callback), after detach() where the code calls it:
\* the timer runs at the period from now on; armed counts the times it was started
attach_ms(t, name, period) ==
    [t EXCEPT ![name] = period, !.armed[name] = @ + 1]

Unarmed == [update |-> 0, blink |-> 0, animate |-> 0, setgroup |-> 0]

Set_a(s, V) ==
    With(atoi(s.inputBuffer, V), LAMBDA ValueInt :
        IF ValueInt >= ANIMATE_INTERVAL_MIN /\ ValueInt <= ANIMATE_INTERVAL_MAX
        THEN clearData(Say([s EXCEPT !.cfg.animateinterval = ValueInt,
                                     !.timers = attach_ms(@, "animate", ValueInt)],
                           "Animation interval"))
        ELSE Say(s, "Invalid animate interval"))

Set_b_AtLeastUpdate(s, V) ==
    With(atoi(s.inputBuffer, V), LAMBDA ValueInt :
        IF ValueInt >= BLINK_INTERVAL_MIN /\ ValueInt <= BLINK_INTERVAL_MAX
        THEN IF ValueInt >= s.cfg.updateinterval
             THEN clearData(Say([s EXCEPT !.cfg.blinkinterval = ValueInt,
                                          !.timers = attach_ms(@, "blink", ValueInt)],
                                "Blinking interval"))
             ELSE Say(s, "Invalid blinking-interval, needs to be bigger than current update-interval")
        ELSE Say(s, "Invalid blink interval"))

Set_b(s, V) ==
    With(atoi(s.inputBuffer, V), LAMBDA ValueInt :
        IF ValueInt >= BLINK_INTERVAL_MIN /\ ValueInt <= BLINK_INTERVAL_MAX
        THEN IF ValueInt > s.cfg.updateinterval
             THEN clearData(Say([s EXCEPT !.cfg.blinkinterval = ValueInt,
                                          !.timers = attach_ms(@, "blink", ValueInt)],
                                "Blinking interval"))
             ELSE Say(s, "Invalid blinking-interval, needs to be bigger than current update-interval")
        ELSE Say(s, "Invalid blink interval"))

Set_u_RefreshOnly(s, V) ==
    With(atoi(s.inputBuffer, V), LAMBDA ValueInt :
        IF ValueInt >= UPDATE_INTERVAL_MIN /\ ValueInt <= UPDATE_INTERVAL_MAX
        THEN IF ValueInt < s.cfg.blinkinterval
             THEN clearData(Say([s EXCEPT !.cfg.updateinterval = ValueInt,
                                          !.timers = attach_ms(@, "update", ValueInt)],
                                "Update interval"))
             ELSE Say(s, "Invalid update-interval, needs to be smaller than current blink-interval")
        ELSE Say(s, "Invalid update interval"))

Set_u(s, V) ==
    With(atoi(s.inputBuffer, V), LAMBDA ValueInt :
        IF ValueInt >= UPDATE_INTERVAL_MIN /\ ValueInt <= UPDATE_INTERVAL_MAX
        THEN IF ValueInt < s.cfg.blinkinterval
             THEN clearData(Say([s EXCEPT !.cfg.updateinterval = ValueInt,
                                          !.timers = attach_ms(attach_ms(@, "setgroup", ValueInt * 2),
                                                               "update", ValueInt)],
                                "Update interval"))
             ELSE Say(s, "Invalid update-interval, needs to be smaller than current blink-interval")
        ELSE Say(s, "Invalid update interval"))

Set_i(s, V) ==
    With(atoi(s.inputBuffer, V), LAMBDA ValueInt :
        IF ValueInt >= BRIGHTNESS_MIN /\ ValueInt <= BRIGHTNESS_MAX
        THEN clearData(Say([s EXCEPT !.cfg.brightness = ValueInt,
                                     !.fastled.brightness = ValueInt], "Brightness intensity"))
        ELSE Say(s, "Invalid brightness intensity"))

\* "Cf:<animation>,<twostep>": the comma has been overwritten with NUL in buf
Set_f2(s1, animation_fade, twostep_fade) ==
    IF animation_fade >= 0 /\ animation_fade <= 255
       /\ twostep_fade >= 0 /\ twostep_fade <= 255
    THEN clearData(Say([s1 EXCEPT !.cfg.fadingAnimation = animation_fade,
                                  !.cfg.fading2Step = twostep_fade],
                       "Animation fading factor"))
    ELSE Say(s1, "Invalid fade Values")

Set_f1(s, ValueInt) ==
    IF ValueInt >= 0 /\ ValueInt <= 255
    THEN clearData(Say([s EXCEPT !.cfg.fadingAnimation = ValueInt,
                                 !.cfg.fading2Step = ValueInt \div 2],
                       "Fading factor"))
    ELSE Say(s, "Invalid fade Value")

Set_fAt(s, V, comma) ==
    IF comma # -1
    THEN With(Poke(s.inputBuffer, comma, 0), LAMBDA buf :
             Set_f2([s EXCEPT !.inputBuffer = buf], atoi(buf, V), atoi(buf, comma + 1)))
    ELSE Set_f1(s, atoi(s.inputBuffer, V))

Set_f(s, V) == Set_fAt(s, V, strchr(s.inputBuffer, V, Ord(",")))

\* a variant of validateChannelOrder without the test for duplicates
validateChannelOrder_NoDuplicateTest(buf, V, numChannels) ==
    LET len     == strlen(buf, V)
        digit(i) == At(buf, V + i) - Ord("0")
        goodTo(n) == \A i \in 0..(n - 1) :
                        At(buf, V + i) >= Ord("1") /\ At(buf, V + i) <= Ord("8")
        used    == {digit(i) : i \in 0..(len - 1)}
        RECURSIVE Missing(_)
        Missing(ch) == IF ch > 8 THEN <<>>
                       ELSE IF ch \in used THEN Missing(ch + 1)
                       ELSE <<ch>> \o Missing(ch + 1)
        order   == SubSeq([i \in 1..len |-> digit(i - 1)] \o Missing(1) \o <<0, 0, 0, 0, 0, 0, 0>>, 1, 8)
    IN  IF len = 0 \/ len > 8 THEN [ok |-> FALSE, order |-> <<>>]
        ELSE IF ~goodTo(len) THEN [ok |-> FALSE, order |-> <<>>]
        ELSE [ok |-> \A i \in 0..(numChannels - 1) : \E j \in 1..8 : order[j] = i + 1,
              order |-> order]

\* validateChannelOrder: [ok, order]; order is tempOrder as far as it is written
validateChannelOrder(buf, V, numChannels) ==
    LET len     == strlen(buf, V)
        digit(i) == At(buf, V + i) - Ord("0")
        goodTo(n) == \A i \in 0..(n - 1) :
                        /\ At(buf, V + i) >= Ord("1") /\ At(buf, V + i) <= Ord("8")
                        /\ \A j \in 0..(i - 1) : digit(j) # digit(i)
        used    == {digit(i) : i \in 0..(len - 1)}
        RECURSIVE Missing(_)
        Missing(ch) == IF ch > 8 THEN <<>>
                       ELSE IF ch \in used THEN Missing(ch + 1)
                       ELSE <<ch>> \o Missing(ch + 1)
        order   == [i \in 1..len |-> digit(i - 1)] \o Missing(1)
    IN  IF len = 0 \/ len > 8 THEN [ok |-> FALSE, order |-> <<>>]
        ELSE IF ~goodTo(len) THEN [ok |-> FALSE, order |-> <<>>]
        ELSE [ok |-> \A i \in 0..(numChannels - 1) : \E j \in 1..8 : order[j] = i + 1,
              order |-> order]

Set_z(s, V) ==
    IF \/ StrEq(s.inputBuffer, V, Str("N")) \/ StrEq(s.inputBuffer, V, Str("n"))
       \/ StrEq(s.inputBuffer, V, Str("F")) \/ StrEq(s.inputBuffer, V, Str("f"))
    THEN clearData(Say([s EXCEPT !.cfg.channelOrder = <<1, 2, 3, 4, 5, 6, 7, 8>>],
                       "Channel order set to: 12345678 (standard)"))
    ELSE With(validateChannelOrder(s.inputBuffer, V, s.cfg.numChannels), LAMBDA r :
             IF r.ok
             THEN clearData(Say([s EXCEPT !.cfg.channelOrder = r.order], "Channel order set to"))
             ELSE Say(s, "Invalid channel order"))

IsNo(c)  == c \in {Ord("N"), Ord("n"), Ord("F"), Ord("f"), Ord("0")}
IsYes(c) == c \in {Ord("Y"), Ord("y"), Ord("T"), Ord("t"), Ord("1")}

Set_g(s, V) ==
    IF IsNo(At(s.inputBuffer, V))
    THEN Say([s EXCEPT !.cfg.startupAnimation = 0], "Startup animation    : Disabled")
    ELSE IF IsYes(At(s.inputBuffer, V))
    THEN Say([s EXCEPT !.cfg.startupAnimation = 1], "Startup animation    : Enabled")
    ELSE Say(s, "Invalid Value, use Y/N or 1/0")

Set_e(s, V) ==
    IF IsNo(At(s.inputBuffer, V))
    THEN Say([s EXCEPT !.cfg.CommandEcho = 0], "Command echo         : Disabled")
    ELSE IF IsYes(At(s.inputBuffer, V))
    THEN Say([s EXCEPT !.cfg.CommandEcho = 1], "Command echo         : Enabled")
    ELSE Say(s, "Invalid Value, use Y/N or 1/0")

\* s1 is the state after Value[4] = '\0'
storePattern(s1, state, pattern) ==
    IF state > 0 /\ state <= 9
    THEN IF pattern <= MAX_PATTERN
         THEN Say([s1 EXCEPT !.cfg.state_pattern =
                      SetNth(s1.cfg.state_pattern, state + 1, U8(pattern))],
                  "Pattern for state")
         ELSE Say(s1, "Invalid pattern")
    ELSE Say(s1, "Invalid state, 1-12 only")

setLedstatePattern(s, V) ==
    IF At(s.inputBuffer, V + 1) = Ord(":")
    THEN With(Poke(s.inputBuffer, V + 4, 0), LAMBDA buf :
             storePattern([s EXCEPT !.inputBuffer = buf],
                          U8(At(buf, V) - Ord("0")), atoi(buf, V + 2)))
    ELSE Say(s, "Syntax error: use Cp:<state>:<pattern>")

storeColor(s, state, RGB) ==
    IF state > 0 /\ state <= 9
    THEN IF (RGB.hi > 0 \/ RGB.lo > 0) /\ ~(RGB.hi = 255 /\ RGB.lo = TWO24 - 1)
         THEN Say([s EXCEPT !.cfg.state_color =
                      SetNth(s.cfg.state_color, state + 1,
                             <<RGB.lo \div 65536, (RGB.lo \div 256) % 256, RGB.lo % 256>>)],
                  "Color for state")
         ELSE Say(s, "Invalid color")
    ELSE Say(s, "Invalid state, 1-9 only")

setLedstateColor(s, V) ==
    IF At(s.inputBuffer, V + 1) = Ord(":")
    THEN storeColor(s, At(s.inputBuffer, V) - Ord("0"), strtoul16(s.inputBuffer, V + 2))
    ELSE Say(s, "Syntax error: use Cc:<STATE>:<BBGGRR>")

\* a variant without the test for a pin that is already assigned
storeGPIO_NoDuplicateTest(s, channel, GPIO_PIN) ==
    IF channel >= 0 /\ channel < NUM_CHANNELS_DEFAULT
    THEN IF GPIO_PIN > GPIO_PIN_MIN /\ GPIO_PIN <= GPIO_PIN_MAX
         THEN IF GPIO_PIN = CPULED_GPIO
              THEN Say(s, "ERROR: GPIO-PIN is already used for CPULED")
              ELSE Say([s EXCEPT !.cfg.channelGPIOpin =
                           SetNth(s.cfg.channelGPIOpin, channel + 1, GPIO_PIN)],
                       "GPIO-PIN for channel is set")
         ELSE Say(s, "Invalid GPIO-PIN number.")
    ELSE Say(s, "Invalid channel")

storeGPIO(s, channel, GPIO_PIN) ==
    IF channel >= 0 /\ channel < NUM_CHANNELS_DEFAULT
    THEN IF GPIO_PIN > GPIO_PIN_MIN /\ GPIO_PIN <= GPIO_PIN_MAX
         THEN IF \E CHANNEL \in 1..NUM_CHANNELS_DEFAULT :
                     GPIO_PIN = s.cfg.channelGPIOpin[CHANNEL]
              THEN Say(s, "ERROR: GPIO-PIN is already used for channel")
              ELSE IF GPIO_PIN = CPULED_GPIO
              THEN Say(s, "ERROR: GPIO-PIN is already used for CPULED")
              ELSE Say([s EXCEPT !.cfg.channelGPIOpin =
                           SetNth(s.cfg.channelGPIOpin, channel + 1, GPIO_PIN)],
                       "GPIO-PIN for channel is set")
         ELSE Say(s, "Invalid GPIO-PIN number.")
    ELSE Say(s, "Invalid channel")

setLedStripGPIO(s, V) ==
    IF At(s.inputBuffer, V + 1) = Ord(":")
    THEN storeGPIO(s, U8(At(s.inputBuffer, V) - Ord("0") - 1),
                   U8(strtoul16(s.inputBuffer, V + 2).lo))
    ELSE Say(s, "Syntax error: use Cx:<channel>:<GPIO-PIN>")

\* strcpy(LedConfig.identifier, IDENTIFIER_DEFAULT): the text and its terminator
strcpyIdentifier(id) ==
    [i \in 1..IDENTIFIER_MAX_LENGTH |->
        IF i <= Len(IDENTIFIER_DEFAULT) THEN IDENTIFIER_DEFAULT[i]
        ELSE IF i = Len(IDENTIFIER_DEFAULT) + 1 THEN 0
        ELSE id[i]]

resetToDefaults(c) ==
    [c EXCEPT !.identifier = strcpyIdentifier(c.identifier),
              !.numLedsPerChannel = NUM_LEDS_PER_CHANNEL_DEFAULT,
              !.numChannels = NUM_CHANNELS_DEFAULT,
              !.numGroupsPerChannel = NUM_GROUPS_PER_CHANNEL_DEFAULT,
              !.spacerWidth = SPACER_WIDTH_DEFAULT,
              !.startOffset = START_OFFSET,
              !.blinkinterval = BLINK_INTERVAL,
              !.updateinterval = UPDATE_INTERVAL,
              !.brightness = BRIGHTNESS,
              !.fadingAnimation = FADING,
              !.fading2Step = FADING_2STEP,
              !.channelOrder = <<1, 2, 3, 4, 5, 6, 7, 8>>,
              !.state_pattern = <<0, 0, 0, 0, 0, 1, 1, 1, 1, 10>>
                                \o SubSeq(c.state_pattern, 11, 12),
              !.state_color = <<c.state_color[1], Green, DarkOrange, Red, Blue,
                                Green, DarkOrange, Red, Blue, White>>,
              !.channelGPIOpin = <<2, 3, 4, 5, 6, 7, 8, 9>>]

setConfigParameters(s, D) ==
    LET configItem == At(s.inputBuffer, D)
        V          == D + 2
    IN  IF At(s.inputBuffer, D + 1) = Ord(":")
        THEN CASE configItem = Ord("n") -> Set_n(s, V)
               [] configItem = Ord("l") -> Set_l(s, V)
               [] configItem = Ord("t") -> Set_t(s, V)
               [] configItem = Ord("s") -> Set_s(s, V)
               [] configItem = Ord("w") -> Set_w(s, V)
               [] configItem = Ord("o") -> Set_o(s, V)
               [] configItem = Ord("a") -> Set_a(s, V)
               [] configItem = Ord("b") -> Set_b(s, V)
               [] configItem = Ord("u") -> Set_u(s, V)
               [] configItem = Ord("i") -> Set_i(s, V)
               [] configItem = Ord("f") -> Set_f(s, V)
               [] configItem = Ord("z") -> Set_z(s, V)
               [] configItem = Ord("g") -> Set_g(s, V)
               [] configItem = Ord("e") -> Set_e(s, V)
               [] configItem = Ord("p") -> clearData(setLedstatePattern(s, V))
               [] configItem = Ord("c") -> clearData(setLedstateColor(s, V))
               [] configItem = Ord("x") -> clearData(setLedStripGPIO(s, V))
               [] configItem = Ord("d") ->
                      clearData(Say([s EXCEPT !.cfg = resetToDefaults(s.cfg)],
                                    "Configuration reset to defaults"))
               [] OTHER -> Say(s, "SYNTAX ERROR: Configuration item unknown")
        ELSE Say(s, "SYNTAX ERROR: Invalid configuration format")


(***************************************************************************)
(* Sparse tables: a function over the keys whose value is not dflt.        *)
(***************************************************************************)
Get(f, k, dflt) == IF k \in DOMAIN f THEN f[k] ELSE dflt

Put(f, k, v, dflt) ==
    IF v = dflt THEN [x \in DOMAIN f \ {k} |-> f[x]]
    ELSE [x \in DOMAIN f \cup {k} |-> IF x = k THEN v ELSE f[x]]

EmptyMap == [x \in {} |-> 0]

GroupIdx == 0..(MAX_GROUPS - 1)

(***************************************************************************)
(* The pixel buffers leds[9][600] are one block of memory: the element     *)
(* leds[c][i] lives at c * 600 + i, whatever c and i are.                  *)
(***************************************************************************)
NUM_ROWS == NUM_CHANNELS_DEFAULT + 1
Flat(c, i) == c * NUM_LEDS_PER_CHANNEL_MAX + i
InBlock(a) == a >= 0 /\ a < NUM_ROWS * NUM_LEDS_PER_CHANNEL_MAX
Cell(a) == <<a \div NUM_LEDS_PER_CHANNEL_MAX, a % NUM_LEDS_PER_CHANNEL_MAX>>
InRange(c, i) == c >= 0 /\ c < NUM_ROWS /\ i >= 0 /\ i < NUM_LEDS_PER_CHANNEL_MAX

\* setAllLEDs(CRGB::Black): every leds[n][i], n < numChannels, i < numLedsPerChannel
setAllLEDsBlack(s) ==
    LET covered(q) == \E n \in 0..(s.cfg.numChannels - 1) :
                         LET i == Flat(q[1], q[2]) - Flat(n, 0)
                         IN  i >= 0 /\ i < s.cfg.numLedsPerChannel
    IN  [s EXCEPT !.leds = [q \in {x \in DOMAIN s.leds : ~covered(x)} |-> s.leds[q]],
                  !.painted = TRUE, !.due.paint = FALSE]

\* StartupLoop: green sweep, flash, twelve fades to black, then FastLED.clear(true)
StartupLoop(s) == clearData(setAllLEDsBlack(s))

(***************************************************************************)
(* loadConfiguration / saveConfiguration                                   *)
(***************************************************************************)
Clamp(v, lo, hi, dflt) == IF v < lo \/ v > hi THEN dflt ELSE v

\* the range checks, in the order of the code: each reads its own field, the
\* capacity check reads numChannels and numGroupsPerChannel as just corrected
validateLoaded(c) ==
    LET nc   == Clamp(c.numChannels, 1, NUM_CHANNELS_MAX, NUM_CHANNELS_DEFAULT)
        ng   == Clamp(c.numGroupsPerChannel, 1, NUM_GROUPS_PER_CHANNEL_MAX,
                      NUM_GROUPS_PER_CHANNEL_DEFAULT)
        over == nc * ng > MAX_GROUPS
    IN  [c EXCEPT
           !.numLedsPerChannel = Clamp(c.numLedsPerChannel, NUM_LEDS_PER_CHANNEL_MIN,
                                        NUM_LEDS_PER_CHANNEL_MAX, NUM_LEDS_PER_CHANNEL_DEFAULT),
           !.numChannels = IF over THEN NUM_CHANNELS_DEFAULT ELSE nc,
           !.numGroupsPerChannel = IF over THEN NUM_GROUPS_PER_CHANNEL_DEFAULT ELSE ng,
           !.spacerWidth = Clamp(c.spacerWidth, 0, SPACER_WIDTH_MAX, SPACER_WIDTH_DEFAULT),
           !.startOffset = Clamp(c.startOffset, 0, START_OFFSET_MAX, START_OFFSET),
           !.blinkinterval = Clamp(c.blinkinterval, BLINK_INTERVAL_MIN, BLINK_INTERVAL_MAX,
                                   BLINK_INTERVAL),
           !.animateinterval = Clamp(c.animateinterval, ANIMATE_INTERVAL_MIN,
                                     ANIMATE_INTERVAL_MAX, ANIMATE_INTERVAL),
           !.updateinterval = Clamp(c.updateinterval, UPDATE_INTERVAL_MIN, UPDATE_INTERVAL_MAX,
                                    UPDATE_INTERVAL),
           !.brightness = Clamp(c.brightness, BRIGHTNESS_MIN, BRIGHTNESS_MAX, BRIGHTNESS)]

\* bool needsCorrection with the bounds themselves taken as out of range
needsCorrection_Exclusive(c) ==
    LET nc == Clamp(c.numChannels, 1, NUM_CHANNELS_MAX, NUM_CHANNELS_DEFAULT)
        ng == Clamp(c.numGroupsPerChannel, 1, NUM_GROUPS_PER_CHANNEL_MAX,
                    NUM_GROUPS_PER_CHANNEL_DEFAULT)
    IN  \/ c.numLedsPerChannel <= NUM_LEDS_PER_CHANNEL_MIN
        \/ c.numLedsPerChannel >= NUM_LEDS_PER_CHANNEL_MAX
        \/ c.numChannels <= 1 \/ c.numChannels >= NUM_CHANNELS_MAX
        \/ c.numGroupsPerChannel <= 1 \/ c.numGroupsPerChannel >= NUM_GROUPS_PER_CHANNEL_MAX
        \/ nc * ng >= MAX_GROUPS
        \/ c.spacerWidth >= SPACER_WIDTH_MAX
        \/ c.startOffset >= START_OFFSET_MAX
        \/ c.blinkinterval <= BLINK_INTERVAL_MIN \/ c.blinkinterval >= BLINK_INTERVAL_MAX
        \/ c.animateinterval <= ANIMATE_INTERVAL_MIN
        \/ c.animateinterval >= ANIMATE_INTERVAL_MAX
        \/ c.updateinterval <= UPDATE_INTERVAL_MIN \/ c.updateinterval >= UPDATE_INTERVAL_MAX
        \/ c.brightness <= BRIGHTNESS_MIN \/ c.brightness >= BRIGHTNESS_MAX

\* bool needsCorrection after the ten checks on the record c as copied from the
\* buffer: set by every check that fires, the capacity check reading numChannels
\* and numGroupsPerChannel as just corrected
needsCorrection(c) ==
    LET nc == Clamp(c.numChannels, 1, NUM_CHANNELS_MAX, NUM_CHANNELS_DEFAULT)
        ng == Clamp(c.numGroupsPerChannel, 1, NUM_GROUPS_PER_CHANNEL_MAX,
                    NUM_GROUPS_PER_CHANNEL_DEFAULT)
    IN  \/ c.numLedsPerChannel < NUM_LEDS_PER_CHANNEL_MIN
        \/ c.numLedsPerChannel > NUM_LEDS_PER_CHANNEL_MAX
        \/ c.numChannels < 1 \/ c.numChannels > NUM_CHANNELS_MAX
        \/ c.numGroupsPerChannel < 1 \/ c.numGroupsPerChannel > NUM_GROUPS_PER_CHANNEL_MAX
        \/ nc * ng > MAX_GROUPS
        \/ c.spacerWidth > SPACER_WIDTH_MAX
        \/ c.startOffset > START_OFFSET_MAX
        \/ c.blinkinterval < BLINK_INTERVAL_MIN \/ c.blinkinterval > BLINK_INTERVAL_MAX
        \/ c.animateinterval < ANIMATE_INTERVAL_MIN \/ c.animateinterval > ANIMATE_INTERVAL_MAX
        \/ c.updateinterval < UPDATE_INTERVAL_MIN \/ c.updateinterval > UPDATE_INTERVAL_MAX
        \/ c.brightness < BRIGHTNESS_MIN \/ c.brightness > BRIGHTNESS_MAX

\* the line printed after "Checksum matches, configuration loaded."
CorrectedNote == "WARNING: Some Values were out of range and corrected to defaults."
NoNote == ""
correctionNote(c) == IF needsCorrection(c) THEN CorrectedNote ELSE NoNote

\* readFile: the content of /config.bin; NoFile stands for the null pointer
\* (no file system, no file, or a file of size 0)
readFile(s) ==
    IF s.fsMounted /\ s.file.kind \in {"blob", "short"} THEN s.file ELSE NoFile

readFileNote(s) ==
    IF s.fsMounted /\ s.file.kind = "empty" THEN "NOTE: File is empty!"
    ELSE "NOTE: Failed opening confgfile"

\* what the heap holds behind a buffer that is shorter than record and digest:
\* bytes that match nothing, or the rest of a blob that was read before
NoHeap == [data |-> [i \in 1..SizeofLedData |-> 0], digest |-> <<"heap">>]
StaleHeap(c) == [data |-> ToBytes(c), digest |-> SHA256(ToBytes(c))]

\* the sizeof(LedData) + 32 bytes the load takes from the buffer: a buffer read
\* from a short file ends before them, the rest is read from the heap behind it
Taken(buffer, heap) ==
    IF buffer.kind = "blob" THEN buffer
    ELSE Blob(buffer.data \o SubSeq(heap.data, Len(buffer.data) + 1, SizeofLedData),
              heap.digest)

\* loadBuffer with the record copied before the digests are compared
loadBuffer_CopyFirst(s, b) ==
    IF b.digest = SHA256(b.data)
    THEN [ok |-> TRUE,
          s  |-> Say([s EXCEPT !.cfg = validateLoaded(FromBytes(b.data))],
                     "Checksum matches, configuration loaded.")]
    ELSE [ok |-> FALSE,
          s  |-> Say([s EXCEPT !.cfg = FromBytes(b.data)],
                     "Checksum mismatch, configuration is corrupted!")]

\* the comparison of the digests and what follows it
loadBuffer(s, b) ==
    IF b.digest = SHA256(b.data)
    THEN [ok |-> TRUE,
          s  |-> Say([s EXCEPT !.cfg = validateLoaded(FromBytes(b.data))],
                     "Checksum matches, configuration loaded.")]
    ELSE [ok |-> FALSE, s |-> Say(s, "Checksum mismatch, configuration is corrupted!")]

\* [ok, s]: ok is the function's return value
loadConfiguration(s, heap) ==
    IF readFile(s).kind = "none"
    THEN [ok |-> FALSE, s |-> Say(s, readFileNote(s))]
    ELSE loadBuffer(s, Taken(readFile(s), heap))

\* a short write leaves the first ShortLen bytes of the record in the file
ShortLen == 20
ShortFile(bytes) == [kind |-> "short", data |-> SubSeq(bytes, 1, ShortLen)]

WriteOutcome == {"written", "open failed", "short write", "nothing written"}

\* writeFile under the outcome w of the flash write; a file opened for writing is
\* truncated, a short file holds fewer bytes than record and digest
writeFile(s, bytes, digest, w) ==
    IF ~s.fsMounted \/ w = "open failed" THEN [ok |-> FALSE, s |-> s]
    ELSE IF w = "short write" THEN [ok |-> FALSE, s |-> [s EXCEPT !.file = ShortFile(bytes)]]
    ELSE IF w = "nothing written" THEN [ok |-> FALSE, s |-> [s EXCEPT !.file = EmptyFile]]
    ELSE [ok |-> TRUE, s |-> [s EXCEPT !.file = Blob(bytes, digest)]]

noteSaved(r, c) == IF r.ok THEN [ok |-> TRUE, s |-> [r.s EXCEPT !.saved = <<c>>]] ELSE r

saveConfiguration(s, w) ==
    noteSaved(writeFile(s, ToBytes(s.cfg), SHA256(ToBytes(s.cfg)), w), s.cfg)

(***************************************************************************)
(* Se / Li: the hexadecimal transfer form                                  *)
(***************************************************************************)
HexOf(bytes) ==
    [i \in 1..(2 * Len(bytes)) |->
        IF i % 2 = 1 THEN HexDigit(bytes[(i + 1) \div 2] \div 16)
        ELSE HexDigit(bytes[i \div 2] % 16)]

exportHex(c) == Str("CONFIG:") \o HexOf(ToBytes(c))

\* importBytes with the two digits of a byte taken in the other order
importBytes_LowFirst(buf, h) ==
    [i \in 1..SizeofLedData |->
        HexVal(At(buf, h + 2 * (i - 1))) + 16 * HexVal(At(buf, h + 2 * (i - 1) + 1))]

\* strtol(byteStr, NULL, 16) of the two characters at hexData + 2 i
importBytes(buf, h) ==
    [i \in 1..SizeofLedData |->
        16 * HexVal(At(buf, h + 2 * (i - 1))) + HexVal(At(buf, h + 2 * (i - 1) + 1))]

\* importHex without the comparison of the length
importHex_NoLengthCheck(s, D) ==
    IF At(s.inputBuffer, D + 1) = Ord(":") /\ HasPrefix(s.inputBuffer, D + 2, Str("CONFIG:"))
    THEN IF \A i \in 0..(strlen(s.inputBuffer, D + 9) - 1) :
                  IsHexChar(At(s.inputBuffer, D + 9 + i))
         THEN Say([s EXCEPT !.cfg = FromBytes(importBytes(s.inputBuffer, D + 9))],
                  "Configuration imported successfully!")
         ELSE Say(s, "ERROR: Invalid hex character")
    ELSE Say(s, "ERROR: Format must be Li:CONFIG:<hex_string>")

importHex(s, D) ==
    IF At(s.inputBuffer, D + 1) = Ord(":") /\ HasPrefix(s.inputBuffer, D + 2, Str("CONFIG:"))
    THEN LET hexData == D + 9
             hexLen  == strlen(s.inputBuffer, hexData)
         IN  IF hexLen = SizeofLedData * 2
             THEN IF \A i \in 0..(hexLen - 1) : IsHexChar(At(s.inputBuffer, hexData + i))
                  THEN Say([s EXCEPT !.cfg = FromBytes(importBytes(s.inputBuffer, hexData))],
                           "Configuration imported successfully!")
                  ELSE Say(s, "ERROR: Invalid hex character")
             ELSE Say(s, "ERROR: Invalid hex length.")
    ELSE Say(s, "ERROR: Format must be Li:CONFIG:<hex_string>")


(***************************************************************************)
(* checkInput: the command dispatcher.  env carries what the environment   *)
(* decides during the command:                                             *)
(*   write   the outcome of a flash write                                  *)
(*   mount   the outcome of mounting the file system at a reboot           *)
(*   heap    what lies behind the buffer readFile allocates                *)
(*   stack   the bytes that follow the local ST in memory (the M command   *)
(*           hands atoi the address of that single character)              *)
(***************************************************************************)
isValidGroup(groupID) == groupID >= MIN_GROUP_ID /\ groupID <= MAX_GROUPS
isValidState(state)   == state >= 0 /\ state <= MAX_STATE_VALUE
isValidPercent(p)     == p >= 0 /\ p <= 100

\* sscanf(Data, "%2d:%d", ...) and sscanf(Data, "%2d:%d:%3d", ...): the number of
\* conversions made and their values
scanGroupState(buf, D, withPct) ==
    With(ScanInt(buf, D, 2), LAMBDA r1 :
        IF ~r1.ok THEN [n |-> 0]
        ELSE IF At(buf, r1.next) # Ord(":") THEN [n |-> 1]
        ELSE With(ScanInt(buf, r1.next + 1, -1), LAMBDA r2 :
            IF ~r2.ok THEN [n |-> 1]
            ELSE IF ~withPct THEN [n |-> 2, groupID |-> r1.val, state |-> r2.val]
            ELSE IF At(buf, r2.next) # Ord(":")
            THEN [n |-> 2, groupID |-> r1.val, state |-> r2.val]
            ELSE With(ScanInt(buf, r2.next + 1, 3), LAMBDA r3 :
                IF ~r3.ok THEN [n |-> 2, groupID |-> r1.val, state |-> r2.val]
                ELSE [n |-> 3, groupID |-> r1.val, state |-> r2.val, Pct |-> r3.val])))

Cmd_T(s, D) ==
    With(scanGroupState(s.inputBuffer, D, FALSE), LAMBDA r :
        IF r.n = 2
        THEN IF isValidGroup(r.groupID)
             THEN IF isValidState(r.state)
                  THEN Say([s EXCEPT !.TermState = Put(s.TermState, r.groupID - 1, r.state, 0),
                                     !.TermPct   = Put(s.TermPct, r.groupID - 1, 100, 0)],
                           "Group state set")
                  ELSE Say(s, "ERROR: Invalid state")
             ELSE Say(s, "ERROR: Invalid Group-ID")
        ELSE Say(s, "Syntax error: Use T<Group-ID>:<STATE>"))

Cmd_P(s, D) ==
    With(scanGroupState(s.inputBuffer, D, TRUE), LAMBDA r :
        IF r.n = 3
        THEN IF isValidGroup(r.groupID)
             THEN IF isValidState(r.state)
                  THEN IF isValidPercent(r.Pct)
                       THEN Say([s EXCEPT
                                   !.TermState = Put(s.TermState, r.groupID - 1, r.state, 0),
                                   !.TermPct   = Put(s.TermPct, r.groupID - 1, U8(r.Pct), 0)],
                                "Group state set with progress")
                       ELSE Say(s, "ERROR: Invalid percentage")
                  ELSE Say(s, "ERROR: Invalid state")
             ELSE Say(s, "ERROR: Invalid Group-ID")
        ELSE Say(s, "Syntax error: Use Pgg:s:ppp"))

AllGroups(v) == IF v = 0 THEN EmptyMap ELSE [g \in GroupIdx |-> v]

\* a variant of case 'A' that takes only the states 1..9
Cmd_A_NonZero(s, D) ==
    With(IF At(s.inputBuffer, D) = Ord(":") THEN ScanInt(s.inputBuffer, D + 1, -1)
         ELSE [ok |-> FALSE], LAMBDA r :
        IF r.ok
        THEN IF isValidState(r.val) /\ r.val > 0
             THEN Say([s EXCEPT !.TermState = AllGroups(r.val), !.TermPct = AllGroups(100)],
                      "All groups set to state")
             ELSE Say(s, "ERROR: Invalid state")
        ELSE Say(s, "ERROR: Syntax error, use A:<STATE>"))

Cmd_A(s, D) ==
    With(IF At(s.inputBuffer, D) = Ord(":") THEN ScanInt(s.inputBuffer, D + 1, -1)
         ELSE [ok |-> FALSE], LAMBDA r :
        IF r.ok
        THEN IF isValidState(r.val)
             THEN Say([s EXCEPT !.TermState = AllGroups(r.val), !.TermPct = AllGroups(100)],
                      "All groups set to state")
             ELSE Say(s, "ERROR: Invalid state")
        ELSE Say(s, "ERROR: Syntax error, use A:<STATE>"))

\* one round of the M loop: TermState[groupID-1] = state where 0 <= state <= 9
\* a variant of the round that stores whatever atoi returned
massStore_Unchecked(s, groupID, state) ==
    [s EXCEPT !.TermState = Put(s.TermState, groupID - 1, state, 0),
              !.TermPct   = Put(s.TermPct, groupID - 1, 100, 0)]

massStore(s, groupID, state) ==
    IF state >= 0 /\ state <= 9
    THEN [s EXCEPT !.TermState = Put(s.TermState, groupID - 1, state, 0),
                   !.TermPct   = Put(s.TermPct, groupID - 1, 100, 0)]
    ELSE s

\* the rounds lo..hi of the M loop, in order.  ST is one char and atoi(&ST)
\* reads on into what the stack holds after it
RECURSIVE massRounds(_, _, _, _, _)
massRounds(s, D, lo, hi, stack) ==
    IF lo > hi THEN s
    ELSE IF lo = hi
    THEN massStore(s, lo, atoi(<<At(s.inputBuffer, D + lo)>> \o stack, 0))
    ELSE CHOOSE r \in {massRounds(m, D, (lo + hi) \div 2 + 1, hi, stack) :
                           m \in {massRounds(s, D, lo, (lo + hi) \div 2, stack)}} : TRUE

\* while (Data[groupID] != 0 && groupID <= MAX_GROUPS)
massSet(s, D, groupID, stack) ==
    massRounds(s, D, groupID,
               IF strlen(s.inputBuffer, D + 1) < MAX_GROUPS
               THEN strlen(s.inputBuffer, D + 1) ELSE MAX_GROUPS, stack)

Cmd_M(s, D, stack) ==
    IF At(s.inputBuffer, D) = Ord(":")
    THEN Say(massSet(s, D, 1, stack), "Set group states")
    ELSE Say(s, "Syntax error: Use M:<STATE><STATE<<STATE>...")

Cmd_X(s) ==
    Say(setAllLEDsBlack([s EXCEPT !.TermState = EmptyMap, !.TermPct = AllGroups(100)]),
        "Reset all Group states.")

saveReport(r) ==
    Say(r.s, IF r.ok THEN "Save configuration: Success." ELSE "Save configuration: Failed...")

Cmd_S(s, D, w) ==
    IF At(s.inputBuffer, D) \in {Ord("e"), Ord("E")}
    THEN Say([s EXCEPT !.exported = <<exportHex(s.cfg), s.cfg>>],
             "=== Configuration Export ===")
    ELSE saveReport(saveConfiguration(s, w))

Cmd_L(s, D, heap) ==
    IF At(s.inputBuffer, D) \in {Ord("i"), Ord("I")}
    THEN importHex(s, D)
    ELSE loadConfiguration(s, heap).s

\* the registered buffers: the channels whose pin addLeds has a case for
Registered(c) ==
    {CH \in 0..(NUM_CHANNELS_DEFAULT - 1) :
        c.channelGPIOpin[CH + 1] \in (0..29) \ {CPULED_GPIO}}

MountOutcome == {"mounted", "formatted", "no file system"}

\* a variant in which the record and the table in RAM outlive the reset
Globals_KeptOverReset(s, mount) ==
    [cfg |-> IF "cfg" \in DOMAIN s THEN s.cfg ELSE LedData,
     TermState |-> IF "TermState" \in DOMAIN s THEN s.TermState ELSE EmptyMap,
     TermPct |-> IF "TermPct" \in DOMAIN s THEN s.TermPct ELSE EmptyMap,
     blinkState |-> FALSE, animate_Step |-> [i \in 1..16 |-> 0],
     ChannelUpdate |-> FALSE, SetGroupStateFlag |-> FALSE,
     timers |-> [update |-> 0, blink |-> 0, animate |-> 0, setgroup |-> 0,
                 armed |-> Unarmed],
     leds |-> [q \in {} |-> Black],
     fastled |-> [chans |-> {}, nLeds |-> 0, brightness |-> 255],
     inputBuffer |-> <<>>, bufferIndex |-> 0,
     CommandCount |-> 0, errorCount |-> 0,
     currentSystemState |-> "SYSTEM_STARTUP",
     fsMounted |-> (mount # "no file system"),
     file |-> IF mount = "mounted" THEN s.file ELSE NoFile,
     out |-> "", exported |-> <<>>, lastInput |-> <<>>,
     saved |-> s.saved, strayWrites |-> {}, wentDark |-> FALSE, painted |-> FALSE,
     due |-> [render |-> FALSE, paint |-> FALSE],
     bootError |-> FALSE,
     boots |-> s.boots + 1]

\* the globals as initialised at reset, over the flash content of s
Globals(s, mount) ==
    [cfg |-> LedData, TermState |-> EmptyMap, TermPct |-> EmptyMap,
     blinkState |-> FALSE, animate_Step |-> [i \in 1..16 |-> 0],
     ChannelUpdate |-> FALSE, SetGroupStateFlag |-> FALSE,
     timers |-> [update |-> 0, blink |-> 0, animate |-> 0, setgroup |-> 0,
                 armed |-> Unarmed],
     leds |-> [q \in {} |-> Black],
     fastled |-> [chans |-> {}, nLeds |-> 0, brightness |-> 255],
     inputBuffer |-> <<>>, bufferIndex |-> 0,
     CommandCount |-> 0, errorCount |-> 0,
     currentSystemState |-> "SYSTEM_STARTUP",
     fsMounted |-> (mount # "no file system"),
     file |-> IF mount = "mounted" THEN s.file ELSE NoFile,
     out |-> "", exported |-> <<>>, lastInput |-> <<>>,
     saved |-> s.saved, strayWrites |-> {}, wentDark |-> FALSE, painted |-> FALSE,
     due |-> [render |-> FALSE, paint |-> FALSE],
     bootError |-> FALSE,
     boots |-> s.boots + 1]

\* "Load or set defaults", in the branch where the file system mounted at once
loadOrDefaults(r) ==
    IF r.ok THEN r.s
    ELSE [r.s EXCEPT !.cfg = resetToDefaults(r.s.cfg), !.bootError = TRUE,
                     !.currentSystemState = "SYSTEM_ERROR"]

addLeds(s) ==
    [s EXCEPT !.fastled = [chans |-> Registered(s.cfg),
                           nLeds |-> s.cfg.numLedsPerChannel,
                           brightness |-> 255],
              !.currentSystemState = "SYSTEM_NORMAL"]

startTimers(s) ==
    Say([s EXCEPT !.fastled.brightness = s.cfg.brightness,
                  !.timers = attach_ms(attach_ms(attach_ms(attach_ms(@,
                                 "update", s.cfg.updateinterval),
                                 "blink", s.cfg.blinkinterval),
                                 "animate", s.cfg.animateinterval),
                                 "setgroup", s.cfg.updateinterval * 2)],
        "Enter 'H' for help")

startupShow(s) ==
    IF s.cfg.startupAnimation # 0 THEN StartupLoop(s) ELSE [clearData(s) EXCEPT !.painted = TRUE]

\* setup(): the state after a boot over the flash content of s
Setup(s, mount, heap) ==
    startTimers(startupShow(addLeds(
        IF mount = "mounted" THEN loadOrDefaults(loadConfiguration(Globals(s, mount), heap))
        ELSE Globals(s, mount))))

dispatch(s, D, env) ==
    LET Command == At(s.inputBuffer, 0)
        Is(ch)  == Command = Ord(ch)
    IN  IF Command >= Ord("A") /\ Command <= Ord("Z")
        THEN CASE Is("H") -> Say(s, "=== SIGHT Command Reference ===")
               [] Is("V") -> Say(s, "=== SIGHT Version Information ===")
               [] Is("D") -> Say(s, "Display configuration:")
               [] Is("C") -> setConfigParameters(s, D)
               [] Is("S") -> Cmd_S(s, D, env.write)
               [] Is("L") -> Cmd_L(s, D, env.heap)
               [] Is("T") -> Cmd_T(s, D)
               [] Is("P") -> Cmd_P(s, D)
               [] Is("A") -> Cmd_A(s, D)
               [] Is("Q") -> Say(s, "=== Quick Status ===")
               [] Is("G") -> Say(s, "=== Group states ===")
               [] Is("M") -> Cmd_M(s, D, env.stack)
               [] Is("X") -> Cmd_X(s)
               [] Is("W") -> StartupLoop(Say(s, "Showing startup loop."))
               [] Is("I") -> Say(s, "=== System Information ===")
               [] Is("R") -> Setup(s, env.mount, env.heap)
               [] OTHER   -> Say([s EXCEPT !.errorCount = s.errorCount + 1],
                                 "ERROR: Command unknown. Use H for help.")
        ELSE Say([s EXCEPT !.errorCount = s.errorCount + 1],
                 "SYNTAX ERROR: not a valid command.")

\* a variant of checkInput that does not count the command
checkInput_Uncounted(s, env) ==
    IF At(s.inputBuffer, 0) = 0 THEN s
    ELSE dispatch([s EXCEPT !.lastInput = CString(s.inputBuffer, 0)], 1, env)

\* a variant of checkInput that takes a lowercase command letter as its capital
checkInput_FoldCase(s, env) ==
    IF At(s.inputBuffer, 0) = 0 THEN s
    ELSE dispatch([s EXCEPT !.CommandCount = s.CommandCount + 1,
                            !.lastInput = CString(s.inputBuffer, 0),
                            !.inputBuffer =
                                IF At(@, 0) >= Ord("a") /\ At(@, 0) <= Ord("z")
                                THEN Poke(@, 0, At(@, 0) - Ord("a") + Ord("A"))
                                ELSE @], 1, env)

checkInput(s, env) ==
    IF At(s.inputBuffer, 0) = 0 THEN s
    ELSE dispatch([s EXCEPT !.CommandCount = s.CommandCount + 1,
                            !.lastInput = CString(s.inputBuffer, 0)], 1, env)

(***************************************************************************)
(* handleSerialInput: consumes the characters waiting in the serial        *)
(* receive buffer.  bufferIndex is a uint8_t.                              *)
(***************************************************************************)
\* a run of characters none of which is ESC, Ctrl-C, CR, LF or BS: each printable
\* one is stored at bufferIndex, which then advances modulo 256 (the index is a
\* uint8_t, so "bufferIndex < MAX_INPUT_LEN - 1" holds at every character and the
\* buffer-full branch is never taken); the others are dropped
typeRun(s, run) ==
    LET p    == SelectSeq(run, isPrintable)
        m    == Len(p)
        b    == s.bufferIndex
        k0(i) == (i - b) % 256
        hit(i) == k0(i) < m /\ i < MAX_INPUT_LEN - 1
        last(i) == k0(i) + 256 * ((m - 1 - k0(i)) \div 256)
        top  == IF b + m > 256 THEN 256 ELSE b + m
        len  == IF top > Len(s.inputBuffer) THEN top ELSE Len(s.inputBuffer)
    IN  IF m = 0 THEN s
        ELSE [s EXCEPT !.inputBuffer =
                          RTrim([i \in 1..len |-> IF hit(i - 1) THEN p[last(i - 1) + 1]
                                                  ELSE At(s.inputBuffer, i - 1)]),
                       !.bufferIndex = U8(b + m)]

IsControl(c) == c \in {ESC, ETX, CR, LF, BS}

\* a variant of the end of line that leaves the buffer as it is
endOfLine_KeepLine(s, s1) == s1

\* after the terminator: the buffer is reset, unless the command rebooted the device
endOfLine(s, s1) ==
    IF s1.boots # s.boots THEN s1
    ELSE [s1 EXCEPT !.bufferIndex = 0, !.inputBuffer = Poke(s1.inputBuffer, 0, 0)]

\* a variant in which ESC and Ctrl-C print CANCELLED and keep the line
handleChar_KeepOnCancel(s, c, env) ==
    IF c = ESC \/ c = ETX
    THEN Say(s, "CANCELLED")
    ELSE IF c = LF \/ c = CR
    THEN IF s.bufferIndex > 0 \/ At(s.inputBuffer, 0) # 0
         THEN endOfLine(s, checkInput([s EXCEPT !.inputBuffer =
                                          Poke(s.inputBuffer, s.bufferIndex, 0)], env))
         ELSE endOfLine(s, s)
    ELSE IF c = BS /\ s.bufferIndex > 0
    THEN [s EXCEPT !.bufferIndex = s.bufferIndex - 1]
    ELSE s

\* one of ESC, Ctrl-C, CR, LF, BS
handleChar(s, c, env) ==
    IF c = ESC \/ c = ETX
    THEN Say([s EXCEPT !.bufferIndex = 0], "CANCELLED")
    ELSE IF c = LF \/ c = CR
    THEN IF s.bufferIndex > 0 \/ At(s.inputBuffer, 0) # 0
         THEN endOfLine(s, checkInput([s EXCEPT !.inputBuffer =
                                          Poke(s.inputBuffer, s.bufferIndex, 0)], env))
         ELSE endOfLine(s, s)
    ELSE IF c = BS /\ s.bufferIndex > 0
    THEN [s EXCEPT !.bufferIndex = s.bufferIndex - 1]
    ELSE s

\* the index of the first control character of chars, or Len(chars) + 1
firstControl(chars) ==
    LET cs == {i \in 1..Len(chars) : IsControl(chars[i])}
    IN  IF cs = {} THEN Len(chars) + 1 ELSE CHOOSE i \in cs : \A j \in cs : i <= j

RECURSIVE handleSerialInput(_, _, _)
\* nothing is read any more once the device has rebooted
serialRest(s, s1, chars, env) ==
    IF s1.boots # s.boots THEN s1 ELSE handleSerialInput(s1, chars, env)

handleSerialInput(s, chars, env) ==
    IF chars = <<>> THEN s
    ELSE IF firstControl(chars) > 1
    THEN handleSerialInput(typeRun(s, SubSeq(chars, 1, firstControl(chars) - 1)),
                           SubSeq(chars, firstControl(chars), Len(chars)), env)
    ELSE serialRest(s, handleChar(s, chars[1], env), Tail(chars), env)

(***************************************************************************)
(* The renderer: setLEDGroup, updateGroups, the Ticker callbacks, loop.    *)
(***************************************************************************)
Abs(a) == IF a < 0 THEN -a ELSE a

\* int / int and int % int: the quotient truncates toward zero.  A zero divisor is
\* undefined: u is the value the build yields for it
CDiv(a, b, u) ==
    IF b = 0 THEN u
    ELSE IF (a < 0) = (b < 0) THEN Abs(a) \div Abs(b) ELSE -(Abs(a) \div Abs(b))

CRem(a, b, u) == IF b = 0 THEN u ELSE a - b * CDiv(a, b, u)

\* round to nearest, ties to the even quotient: q is the quotient, r the remainder, d the divisor
roundEven(q, r, d) == IF 2 * r > d \/ (2 * r = d /\ q % 2 = 1) THEN q + 1 ELSE q

\* a binary32 keeps 24 significant bits
F32_MANT == 24

LIMB_BITS == 12
LIMB == 2^LIMB_BITS

\* float(Pct) / 100 for 0 < Pct < 100 is the binary32 m * 2^-e, 2^23 <= m < 2^24
factorExp(Pct) ==
    CHOOSE e \in F32_MANT..(F32_MANT + 6) :
        Pct * 2^(e - F32_MANT) >= 50 /\ Pct * 2^(e - F32_MANT) < 100

factorMant(Pct, e) == roundEven((Pct * 2^e) \div 100, (Pct * 2^e) % 100, 100)

\* the number of bits of n
bitLen(n) == IF n = 0 THEN 0 ELSE CHOOSE b \in 1..30 : 2^(b - 1) <= n /\ n < 2^b

\* the binary32 nearest to I + R / 2^e keeps 24 bits: t bits of R are dropped, and
\* round() then takes the nearest integer, halves away from zero
roundKept(I, R, e, t) ==
    IF roundEven(R \div 2^t, R % 2^t, 2^t) * 2^t >= 2^(e - 1) THEN I + 1 ELSE I

roundProduct(I, R, e) ==
    IF I > 0 THEN roundKept(I, R, e, e - F32_MANT + bitLen(I))
    ELSE IF bitLen(R) > F32_MANT THEN roundKept(0, R, e, bitLen(R) - F32_MANT)
    ELSE roundKept(0, R, e, 0)

\* g * m / 2^e as integer part and e-bit fraction, the product taken in two limbs
splitProduct(A, C, e) ==
    roundProduct(A \div 2^(e - LIMB_BITS), (A % 2^(e - LIMB_BITS)) * LIMB + C, e)

mulFactor(g, m, e) ==
    splitProduct(g * (m \div LIMB) + (g * (m % LIMB)) \div LIMB, (g * (m % LIMB)) % LIMB, e)

\* round(float(groupWidth) * factor), factor = float(Pct) / 100
roundPct(groupWidth, Pct) ==
    IF Pct = 0 \/ groupWidth = 0 THEN 0
    ELSE IF groupWidth < 0
    THEN -mulFactor(-groupWidth, factorMant(Pct, factorExp(Pct)), factorExp(Pct))
    ELSE mulFactor(groupWidth, factorMant(Pct, factorExp(Pct)), factorExp(Pct))

pctWidth(groupWidth, Pct) ==
    IF Pct < 100
    THEN IF roundPct(groupWidth, Pct) = 0 /\ Pct > 0 THEN 1 ELSE roundPct(groupWidth, Pct)
    ELSE groupWidth

\* CRGB::fadeLightBy(uint8_t): every channel is scaled by 255 - fade
fadeLightBy(c, fade) == [k \in 1..3 |-> (c[k] * (256 - U8(fade))) \div 256]

\* CRGB * bool
scaled(c, on) == IF on THEN c ELSE Black

\* the value of leds[ch][i]; what lies outside the block is taken as black
pixel(s, ch, i) == IF InBlock(Flat(ch, i)) THEN Get(s.leds, Cell(Flat(ch, i)), Black) ELSE Black

\* the assignments leds[ch][base + o] = w[o] for the offsets o of w.  An element
\* outside its row but inside the block is a pixel of another row; strayWrites
\* collects every <<ch, index>> written that is not an element of leds[9][600]
store(s, ch, base, w) ==
    [s EXCEPT
       !.leds =
           [q \in {x \in DOMAIN s.leds : (Flat(x[1], x[2]) - Flat(ch, base)) \notin DOMAIN w}
                  \cup {Cell(Flat(ch, base + o)) :
                           o \in {x \in DOMAIN w : InBlock(Flat(ch, base + x)) /\ w[x] # Black}}
              |-> IF (Flat(q[1], q[2]) - Flat(ch, base)) \in DOMAIN w
                  THEN w[Flat(q[1], q[2]) - Flat(ch, base)]
                  ELSE s.leds[q]] @@ EmptyMap,
       !.strayWrites = @ \cup {<<ch, base + o>> : o \in {x \in DOMAIN w : ~InRange(ch, base + x)}}]

\* TermState[i], TermPct[i]: an index past the table reads what the build left there
tableAt(t, i, u) == IF i < MAX_GROUPS THEN Get(t, i, 0) ELSE U8(u)

patternOf(c, state, u) == IF state < Len(c.state_pattern) THEN c.state_pattern[state + 1] ELSE U8(u)

colorOf(c, state, u) ==
    IF state < Len(c.state_color) THEN c.state_color[state + 1] ELSE <<U8(u), U8(u), U8(u)>>

\* channelIndex: the position in wiring order, mapped through channelOrder
channelOf(c, ci) == IF ci >= 0 /\ ci < 8 THEN c.channelOrder[ci + 1] - 1 ELSE ci

\* what setLEDGroup derives from the configuration for a group and its table entry
geometry(c, group, state, Pct, blink, u) ==
    [channelIndex  |-> channelOf(c, CDiv(group, c.numGroupsPerChannel, u)),
     startLEDIndex |-> CRem(group, c.numGroupsPerChannel, u)
                         * CDiv(c.numLedsPerChannel, c.numGroupsPerChannel, u) + c.startOffset,
     fullgroupWidth |-> CDiv(c.numLedsPerChannel, c.numGroupsPerChannel, u) - c.spacerWidth,
     groupWidth    |-> pctWidth(CDiv(c.numLedsPerChannel, c.numGroupsPerChannel, u)
                                  - c.spacerWidth, Pct),
     cleared       |-> patternOf(c, state, u) < 8,
     pattern       |-> IF Pct < 100 THEN 0 ELSE patternOf(c, state, u),
     color         |-> colorOf(c, state, u),
     lit           |-> fadeLightBy(colorOf(c, state, u), c.fading2Step),
     blinkState    |-> blink,
     fadingAnimation |-> c.fadingAnimation]

\* "Clear entire group first"
clearGroup(s, g) ==
    IF g.cleared
    THEN CHOOSE r \in {store(s, g.channelIndex, g.startLEDIndex, w) :
                           w \in {[i \in 0..(g.fullgroupWidth - 1) |-> Black]}} : TRUE
    ELSE s

\* the divisor of animate_Step[pattern] = animate_Step[pattern] % ...
modulus(pattern, groupWidth) ==
    CASE pattern \in {0, 6}          -> 1
      [] pattern \in {1, 2, 3, 4, 7} -> 2
      [] pattern \in {5, 8, 9}       -> groupWidth
      [] pattern = 10                -> groupWidth * 2
      [] pattern \in {11, 12}        -> CDiv(groupWidth, 2, 0)

clipStep(s, g, u) ==
    IF g.pattern <= MAX_PATTERN
    THEN [s EXCEPT !.animate_Step[g.pattern + 1] =
                       U8(CRem(@, modulus(g.pattern, g.groupWidth), u))]
    ELSE s

\* animateStep(): every counter advances, modulo 256
animateStep(s) == [s EXCEPT !.animate_Step = [i \in DOMAIN @ |-> U8(@[i] + 1)]]

\* the left half taking the colour when blinkState is true in pattern 3 (the other
\* patterns drawn solid)
steady_LeftOnPhase(g) ==
    IF g.pattern = 3
    THEN [i \in 0..(2 * CDiv(g.groupWidth, 2, 0) - 1) |->
             scaled(g.lit, (i < CDiv(g.groupWidth, 2, 0)) = g.blinkState)]
    ELSE [i \in 0..(g.groupWidth - 1) |-> g.lit]

\* patterns 0..7: the colour written at offset i, for the offsets written
steady(g) ==
    CASE g.pattern = 0 -> [i \in 0..(g.groupWidth - 1) |-> g.lit]
      [] g.pattern = 1 -> [i \in 0..(g.groupWidth - 1) |-> scaled(g.lit, g.blinkState)]
      [] g.pattern = 2 -> [i \in 0..(g.groupWidth - 1) |-> scaled(g.lit, ~g.blinkState)]
      [] g.pattern = 3 -> [i \in 0..(2 * CDiv(g.groupWidth, 2, 0) - 1) |->
                              scaled(g.lit, (i >= CDiv(g.groupWidth, 2, 0)) = g.blinkState)]
      [] g.pattern = 4 -> [i \in 0..(g.groupWidth - 1) |->
                              IF i < CDiv(g.groupWidth, 4, 0)
                                 \/ i >= g.groupWidth - CDiv(g.groupWidth, 4, 0)
                              THEN scaled(g.lit, g.blinkState)
                              ELSE scaled(g.lit, ~g.blinkState)]
      [] g.pattern = 5 -> [i \in 0..(g.groupWidth - 1) |->
                              IF i % 2 = 1 THEN scaled(g.lit, g.blinkState)
                              ELSE scaled(g.lit, ~g.blinkState)]
      [] g.pattern = 6 -> [i \in {x \in 0..(g.groupWidth - 1) :
                                    x <= CDiv(g.groupWidth, 3, 0)
                                    \/ x >= g.groupWidth - CDiv(g.groupWidth, 3, 0) - 1} |-> g.lit]
      [] g.pattern = 7 -> [i \in {x \in 0..(g.groupWidth - 1) :
                                    x <= CDiv(g.groupWidth, 3, 0)
                                    \/ x >= g.groupWidth - CDiv(g.groupWidth, 3, 0) - 1} |->
                              scaled(g.lit, g.blinkState)]

\* patterns 8..12: the offsets that take the state colour, step being animate_Step[pattern]
heads(g, step) ==
    CASE g.pattern = 8  -> {step}
      [] g.pattern = 9  -> {g.groupWidth - step - 1}
      [] g.pattern = 10 -> {IF step < g.groupWidth THEN step
                            ELSE (g.groupWidth - (step - g.groupWidth)) - 1}
      [] g.pattern = 11 -> {step, g.groupWidth - step - 1}
      [] g.pattern = 12 -> {CDiv(g.groupWidth, 2, 0) - step - 1, CDiv(g.groupWidth, 2, 0) + step}

\* patterns 8..12: the group fades by fadingAnimation, then the heads are set
moving(s, g, hs) ==
    [i \in (0..(g.groupWidth - 1)) \cup hs |->
        IF i \in hs THEN g.color
        ELSE fadeLightBy(pixel(s, g.channelIndex, g.startLEDIndex + i), g.fadingAnimation)]

drawGroup(s, g) ==
    IF g.pattern < 8
    THEN CHOOSE r \in {store(s, g.channelIndex, g.startLEDIndex, w) : w \in {steady(g)}} : TRUE
    ELSE IF g.pattern <= MAX_PATTERN
    THEN CHOOSE r \in {store(s, g.channelIndex, g.startLEDIndex, w) :
                           w \in {moving(s, g, heads(g, s.animate_Step[g.pattern + 1]))}} : TRUE
    ELSE s

\* animateStep() runs from the Ticker interrupt; when it interrupts setLEDGroup
\* between the clipping of the counter and its use, the counter used is one ahead
interrupted(s, ticked) == IF ticked THEN animateStep(s) ELSE s

\* animate_Step[pattern] = animate_Step[pattern] % ... is a load, a division and a
\* store of a plain uint8_t; when animateStep() runs between the load and the
\* store, the store puts the remainder of the value loaded over the increment
overwritten(s, g, u) ==
    IF g.pattern <= MAX_PATTERN
    THEN [animateStep(s) EXCEPT !.animate_Step[g.pattern + 1] =
             U8(CRem(s.animate_Step[g.pattern + 1], modulus(g.pattern, g.groupWidth), u))]
    ELSE animateStep(s)

\* env.tickIn says where in setLEDGroup the interrupt falls
renderGroup(s, g, env, ticked) ==
    CHOOSE r \in {drawGroup(m, g) :
                     m \in {IF ticked /\ env.tickIn = "clip"
                            THEN overwritten(c, g, env.undef)
                            ELSE interrupted(clipStep(c, g, env.undef), ticked) :
                            c \in {clearGroup(s, g)}}} : TRUE

\* setLEDGroup(uint8_t group, uint8_t state, uint8_t Pct); i is the caller's index
setLEDGroup(s, i, state, Pct, env) ==
    CHOOSE r \in {renderGroup(m, g, env, env.tickAt = i) :
                     m \in {s},
                     g \in {geometry(s.cfg, U8(i), U8(state), U8(Pct), s.blinkState,
                                      env.undef)}} : TRUE

\* the loop of updateGroups over lo <= i <= hi
RECURSIVE groupsFrom(_, _, _, _)
groupsFrom(s, lo, hi, env) ==
    IF lo > hi THEN s
    ELSE IF lo = hi
    THEN setLEDGroup(s, lo, tableAt(s.TermState, lo, env.undef),
                     tableAt(s.TermPct, lo, env.undef), env)
    ELSE CHOOSE r \in {groupsFrom(m, (lo + hi) \div 2 + 1, hi, env) :
                           m \in {groupsFrom(s, lo, (lo + hi) \div 2, env)}} : TRUE

updateGroups(s, env) ==
    groupsFrom(s, 0, s.cfg.numGroupsPerChannel * s.cfg.numChannels - 1, env)

\* a callback that renders by itself instead of raising the flag
writeChannelData_Renders(s) == updateGroups(s, [tickAt |-> 0 - 1, undef |-> 0])

writeChannelData(s) == [s EXCEPT !.ChannelUpdate = TRUE, !.due.render = TRUE]

setBlinkState(s) == [s EXCEPT !.blinkState = ~@]

setGroupState(s) == [s EXCEPT !.SetGroupStateFlag = TRUE, !.due.paint = TRUE]

\* loop() after the serial input: FastLED.show() when its flag is set, then the
\* render when ChannelUpdate is set
\* FastLED.show() runs with the flag still set and the flag is cleared behind it:
\* when setGroupState() fires while the frame goes out (env.tickShow), the
\* assignment that follows clears what the callback has set
showPending(s, env) ==
    IF s.SetGroupStateFlag
    THEN [(IF env.tickShow THEN setGroupState([s EXCEPT !.due.paint = FALSE])
           ELSE [s EXCEPT !.due.paint = FALSE])
          EXCEPT !.SetGroupStateFlag = FALSE, !.painted = TRUE]
    ELSE s

\* wentDark records whether the render turned a pixel that was lit black
noteDark(before, s) ==
    [s EXCEPT !.wentDark = \E k \in DOMAIN before :
                               before[k] # Black /\ Get(s.leds, k, Black) = Black]

renderPending(s, env) ==
    IF s.ChannelUpdate
    THEN CHOOSE r \in {noteDark(s.leds, updateGroups(m, env)) :
                           m \in {[s EXCEPT !.ChannelUpdate = FALSE,
                                            !.due.render = FALSE]}} : TRUE
    ELSE s

\* a reboot ends the pass: the state is the one setup() leaves
loopTail(s, s1, env) ==
    IF s1.boots # s.boots THEN s1
    ELSE CHOOSE r \in {renderPending(m, env) : m \in {showPending(s1, env)}} : TRUE

\* loop(): chars are the characters waiting in the serial receive buffer
loop(s, chars, env) ==
    CHOOSE r \in {loopTail(s, s1, env) :
                     s1 \in {IF chars # <<>>
                             THEN handleSerialInput([s EXCEPT !.painted = FALSE], chars, env)
                             ELSE [s EXCEPT !.painted = FALSE]}} : TRUE

(***************************************************************************)
(* The state machine.                                                      *)
(***************************************************************************)
\* sent is the line the host sent in the last step (empty after a step that sent
\* none), steps the number of steps taken
VARIABLES cfg, TermState, TermPct, blinkState, animate_Step, ChannelUpdate,
          SetGroupStateFlag, timers, leds, fastled, inputBuffer, bufferIndex,
          CommandCount, errorCount, currentSystemState, fsMounted, file,
          out, exported, lastInput, saved, strayWrites, wentDark, painted, due, bootError,
          boots,
          sent, steps

vars == <<cfg, TermState, TermPct, blinkState, animate_Step, ChannelUpdate,
          SetGroupStateFlag, timers, leds, fastled, inputBuffer, bufferIndex,
          CommandCount, errorCount, currentSystemState, fsMounted, file,
          out, exported, lastInput, saved, strayWrites, wentDark, painted, due, bootError,
          boots,
          sent, steps>>

State ==
    [cfg |-> cfg, TermState |-> TermState, TermPct |-> TermPct,
     blinkState |-> blinkState, animate_Step |-> animate_Step,
     ChannelUpdate |-> ChannelUpdate, SetGroupStateFlag |-> SetGroupStateFlag,
     timers |-> timers, leds |-> leds, fastled |-> fastled,
     inputBuffer |-> inputBuffer, bufferIndex |-> bufferIndex,
     CommandCount |-> CommandCount, errorCount |-> errorCount,
     currentSystemState |-> currentSystemState, fsMounted |-> fsMounted,
     file |-> file, out |-> out, exported |-> exported, lastInput |-> lastInput,
     saved |-> saved, strayWrites |-> strayWrites, wentDark |-> wentDark,
     painted |-> painted, due |-> due,
     bootError |-> bootError,
     boots |-> boots]

Become(s) ==
    /\ cfg' = s.cfg
    /\ TermState' = s.TermState
    /\ TermPct' = s.TermPct
    /\ blinkState' = s.blinkState
    /\ animate_Step' = s.animate_Step
    /\ ChannelUpdate' = s.ChannelUpdate
    /\ SetGroupStateFlag' = s.SetGroupStateFlag
    /\ timers' = s.timers
    /\ leds' = s.leds
    /\ fastled' = s.fastled
    /\ inputBuffer' = s.inputBuffer
    /\ bufferIndex' = s.bufferIndex
    /\ CommandCount' = s.CommandCount
    /\ errorCount' = s.errorCount
    /\ currentSystemState' = s.currentSystemState
    /\ fsMounted' = s.fsMounted
    /\ file' = s.file
    /\ out' = s.out
    /\ exported' = s.exported
    /\ lastInput' = s.lastInput
    /\ saved' = s.saved
    /\ strayWrites' = s.strayWrites
    /\ wentDark' = s.wentDark
    /\ painted' = s.painted
    /\ due' = s.due
    /\ bootError' = s.bootError
    /\ boots' = s.boots

\* a device that was never powered: empty flash, no record ever saved
Factory == [file |-> NoFile, saved |-> <<>>, boots |-> 0]

Init ==
    \E s \in {Setup(Factory, m, NoHeap) : m \in MountOutcome} :
        /\ cfg = s.cfg
        /\ TermState = s.TermState
        /\ TermPct = s.TermPct
        /\ blinkState = s.blinkState
        /\ animate_Step = s.animate_Step
        /\ ChannelUpdate = s.ChannelUpdate
        /\ SetGroupStateFlag = s.SetGroupStateFlag
        /\ timers = s.timers
        /\ leds = s.leds
        /\ fastled = s.fastled
        /\ inputBuffer = s.inputBuffer
        /\ bufferIndex = s.bufferIndex
        /\ CommandCount = s.CommandCount
        /\ errorCount = s.errorCount
        /\ currentSystemState = s.currentSystemState
        /\ fsMounted = s.fsMounted
        /\ file = s.file
        /\ out = s.out
        /\ exported = s.exported
        /\ lastInput = s.lastInput
        /\ saved = s.saved
        /\ strayWrites = s.strayWrites
        /\ wentDark = s.wentDark
        /\ painted = s.painted
        /\ due = s.due
        /\ bootError = s.bootError
        /\ boots = s.boots
        /\ sent = <<>>
        /\ steps = 0

\* the surroundings of a pass of loop(): how a flash write and a mount end, what
\* the heap and the stack hold, the group during which animateStep() interrupts
\* the render (NoTick: none) and where in it, whether setGroupState() fires
\* while FastLED.show() runs, the value an undefined division yields
NoTick == -1

Quiet == [write |-> "written", mount |-> "mounted", heap |-> NoHeap, stack |-> <<>>,
          tickAt |-> NoTick, tickIn |-> "use", tickShow |-> FALSE, undef |-> 0]

\* a pass of loop() in which the host has sent one line and its terminator
Send(line, env, depth) ==
    /\ steps < depth
    /\ steps' = steps + 1
    /\ sent' = line
    /\ \E s \in {loop(State, line \o <<CR>>, env)} : Become(s)

\* a pass of loop() that finds chars in the serial receive buffer
Receive(chars, env, depth) ==
    /\ steps < depth
    /\ steps' = steps + 1
    /\ sent' = chars
    /\ \E s \in {loop(State, chars, env)} : Become(s)

\* a pass of loop() with nothing waiting on the serial line
Idle(env, depth) ==
    /\ steps < depth
    /\ steps' = steps + 1
    /\ sent' = <<>>
    /\ \E s \in {loop(State, <<>>, env)} : Become(s)

\* a Ticker callback runs
Tick(s, depth) ==
    /\ steps < depth
    /\ steps' = steps + 1
    /\ sent' = <<>>
    /\ Become([s EXCEPT !.painted = FALSE])


(***************************************************************************)
(* Configuration store: setters, save, load, export, import, reboot and    *)
(* flash corruption.                                                       *)
(***************************************************************************)
StoreDepth == 3

StoreSetLines ==
    {Str("Cw:5"), Str("Cp:1:-5"), Str("Cd:"), Str("Cu:100")}

\* records a host can encode although no setter produces them
OverCapacity == [LedData EXCEPT !.numChannels = 200, !.numGroupsPerChannel = 200]
Inverted     == [LedData EXCEPT !.blinkinterval = 100, !.updateinterval = 400]
OutOfDomain  == [LedData EXCEPT !.fadingAnimation = 300,
                                !.state_pattern = <<0, 0, 77, 0, 0, 1, 1, 1, 1, 0, 0, 0>>,
                                !.channelOrder = <<1, 1, 1, 1, 1, 1, 1, 1>>]
Renamed      == [LedData EXCEPT !.identifier = Pad(Str("Rack-7"), IDENTIFIER_MAX_LENGTH),
                                !.spacerWidth = 2, !.brightness = 175]

ForeignRecords == {OverCapacity, Inverted, OutOfDomain, Renamed}

TagLen == 7
HexLen == 2 * SizeofLedData

\* ways to spoil the CONFIG: text x of a record
Spoilt(x) ==
    {SubSeq(x, 1, Len(x) - 1),
     x \o <<Ord("0")>>,
     SubSeq(x, 1, TagLen),
     [x EXCEPT ![TagLen + 1] = Ord("G")],
     [x EXCEPT ![TagLen + SizeofLedData] = Ord(" ")],
     [x EXCEPT ![TagLen + HexLen] = Ord("x")]}

BadImportLines ==
    {Str("Li:") \o x : x \in Spoilt(exportHex(Renamed))}
    \cup {Str("Li:CONFIX:") \o HexOf(ToBytes(Renamed)),
          Str("Li") \o exportHex(Renamed)}

StoreSet == \E l \in StoreSetLines : Send(l, Quiet, StoreDepth)

\* a group is given a state, so that the table is not empty at a reboot
StoreGroup == Send(Str("T1:1"), Quiet, StoreDepth)

StoreSave == \E w \in WriteOutcome : Send(Str("S"), [Quiet EXCEPT !.write = w], StoreDepth)

StoreExport == Send(Str("Se"), Quiet, StoreDepth)

StoreHeaps == {NoHeap, StaleHeap(LedData)}

StoreLoad == \E h \in StoreHeaps : Send(Str("L"), [Quiet EXCEPT !.heap = h], StoreDepth)

StoreImportExported ==
    /\ exported # <<>>
    /\ Send(Str("Li:") \o exported[1], Quiet, StoreDepth)

StoreImportForeign ==
    \E R \in ForeignRecords : Send(Str("Li:") \o exportHex(R), Quiet, StoreDepth)

StoreImportBad == \E l \in BadImportLines : Send(l, Quiet, StoreDepth)

StoreReboot ==
    \E m \in MountOutcome, h \in StoreHeaps :
        Send(Str("R"), [Quiet EXCEPT !.mount = m, !.heap = h], StoreDepth)

\* a byte of the stored blob changes in flash: a record byte or a digest byte
CorruptAt == {1, 21, SizeofLedData}

Damaged(digest) == <<"damaged", digest>>

Flip(b) == (b + 1) % 256

StoreCorrupt ==
    /\ steps < StoreDepth
    /\ file.kind = "blob"
    /\ \/ \E k \in CorruptAt :
             file' = [file EXCEPT !.data = SetNth(file.data, k, Flip(file.data[k]))]
       \/ file' = [file EXCEPT !.digest = Damaged(file.digest)]
    /\ steps' = steps + 1
    /\ sent' = <<>>
    /\ UNCHANGED <<cfg, TermState, TermPct, blinkState, animate_Step, ChannelUpdate,
                   SetGroupStateFlag, timers, leds, fastled, inputBuffer, bufferIndex,
                   CommandCount, errorCount, currentSystemState, fsMounted,
                   out, exported, lastInput, saved, strayWrites, wentDark, painted, due, bootError,
                   boots>>

NextStore ==
    \/ StoreSet
    \/ StoreGroup
    \/ StoreSave
    \/ StoreExport
    \/ StoreLoad
    \/ StoreImportExported
    \/ StoreImportForeign
    \/ StoreImportBad
    \/ StoreReboot
    \/ StoreCorrupt

SpecStore == Init /\ [][NextStore]_vars


(***************************************************************************)
(* Rendering: geometry setters, group state lines, an import, the Ticker   *)
(* callbacks and passes of loop().                                         *)
(***************************************************************************)
RenderDepth == 4

RenderSetLines == {Str("Cl:600"), Str("Co:9"), Str("Cp:1:8")}

RenderGroupLines == {Str("T1:1"), Str("P1:9:50"), Str("T1:9"), Str("A:0")}

\* a record a host can encode although no setter produces it
ZeroOrder == [LedData EXCEPT !.channelOrder = <<0, 2, 3, 4, 5, 6, 7, 8>>]

\* animateStep() interrupts the render of no group, or of group 0
RenderTicks == {NoTick, 0}

RenderSet == \E l \in RenderSetLines : Send(l, Quiet, RenderDepth)

RenderGroup == \E l \in RenderGroupLines : Send(l, Quiet, RenderDepth)

RenderImport == Send(Str("Li:") \o exportHex(ZeroOrder), Quiet, RenderDepth)

RenderIdle == \E t \in RenderTicks : Idle([Quiet EXCEPT !.tickAt = t], RenderDepth)

TickUpdate == Tick(writeChannelData(State), RenderDepth)

TickBlink == Tick(setBlinkState(State), RenderDepth)

TickAnimate == Tick(animateStep(State), RenderDepth)

TickSetGroup == Tick(setGroupState(State), RenderDepth)

NextRender ==
    \/ RenderSet
    \/ RenderGroup
    \/ RenderImport
    \/ RenderIdle
    \/ TickUpdate
    \/ TickBlink
    \/ TickAnimate
    \/ TickSetGroup

SpecRender == Init /\ [][NextRender]_vars


(***************************************************************************)
(* Timing: the interval setters Ca, Cb, Cu with values below, inside and   *)
(* above the ranges, a reset to defaults, an import, a reboot.             *)
(***************************************************************************)
ClockDepth == 3

ClockValues == {4, 60, 100, 250, 3001}

RECURSIVE Dec(_)
\* the decimal digits of n >= 0
Dec(n) == IF n < 10 THEN <<Ord("0") + n>> ELSE Dec(n \div 10) \o <<Ord("0") + (n % 10)>>

\* the line C<item>:<v>
SetLine(item, v) == Str("C") \o Str(item) \o Str(":") \o Dec(v)

ClockAnimate == \E v \in ClockValues : Send(SetLine("a", v), Quiet, ClockDepth)

ClockBlink == \E v \in ClockValues : Send(SetLine("b", v), Quiet, ClockDepth)

ClockUpdate == \E v \in ClockValues : Send(SetLine("u", v), Quiet, ClockDepth)

ClockDefaults == Send(Str("Cd:"), Quiet, ClockDepth)

ClockImport == Send(Str("Li:") \o exportHex(Inverted), Quiet, ClockDepth)

ClockReboot == Send(Str("R"), Quiet, ClockDepth)

NextClock ==
    \/ ClockAnimate
    \/ ClockBlink
    \/ ClockUpdate
    \/ ClockDefaults
    \/ ClockImport
    \/ ClockReboot

SpecClock == Init /\ [][NextClock]_vars


(***************************************************************************)
(* Channel order: Cz with full and partial orders, duplicates, digits      *)
(* outside 1..8, too long and empty values, and Cd.                        *)
(***************************************************************************)
OrderDepth == 3

OrderValues ==
    {Str("N"), Str("f"), Str("43215678"), Str("87654321"), Str("4321"), Str("8"), Str("31"),
     Str("11"), Str("1231"), Str("9"), Str("0"), Str("12a"), Str("123456789"), <<>>}

\* the line Cz:<value>
OrderLine(v) == Str("Cz:") \o v

OrderSet == \E v \in OrderValues : Send(OrderLine(v), Quiet, OrderDepth)

OrderDefaults == Send(Str("Cd:"), Quiet, OrderDepth)

OrderChannels == \E l \in {Str("Cs:2"), Str("Cs:8")} : Send(l, Quiet, OrderDepth)

NextOrder ==
    \/ OrderSet
    \/ OrderDefaults
    \/ OrderChannels

SpecOrder == Init /\ [][NextOrder]_vars


(***************************************************************************)
(* Serial line: printable text, terminators, two-character line endings,   *)
(* cancel and backspace, received a few characters per pass of loop().     *)
(***************************************************************************)
SerialDepth == 4

\* text that arrives without a terminator
SerialText ==
    {Str("X"), Str("T1:1"), Str("Cw:5"), Str("?"), Str("h"), Str("Zz"), Str(" T1:1")}

Terminators == {<<CR>>, <<LF>>, <<CR, LF>>}

Cancels == {<<ESC>>, <<ETX>>}

SerialType == \E p \in SerialText : Receive(p, Quiet, SerialDepth)

SerialEnter == \E e \in Terminators : Receive(e, Quiet, SerialDepth)

SerialCancel == \E c \in Cancels : Receive(c, Quiet, SerialDepth)

SerialBackspace == Receive(<<BS>>, Quiet, SerialDepth)

\* the command X followed by letters: MAX_INPUT_LEN characters, one more than
\* a line may hold
FullLine == [i \in 1..MAX_INPUT_LEN |-> IF i = 1 THEN Ord("X") ELSE Ord("x")]

SerialFlood == Receive(FullLine, Quiet, SerialDepth)

NextSerial ==
    \/ SerialType
    \/ SerialEnter
    \/ SerialCancel
    \/ SerialBackspace
    \/ SerialFlood

SpecSerial == Init /\ [][NextSerial]_vars


(***************************************************************************)
(* Long lines: text of a few and of some hundred characters, below the     *)
(* length a line may have, typed in pieces or sent with its terminator,    *)
(* with backspaces, cancels and terminators.                               *)
(***************************************************************************)
LineDepth == 4

\* the length of the long piece, and of the piece that fills the line to its limit
LineLong == 200
LineLimit == MAX_INPUT_LEN - 2

\* the command X followed by n - 1 letters
LongText(n) == [i \in 1..n |-> IF i = 1 THEN Ord("X") ELSE Ord("x")]

LineTexts ==
    {Str("T1:1"), Str("T1:2") \o <<BS>> \o Str("1"), Str("x"), LongText(LineLong),
     LongText(LineLimit)}

LineType == \E p \in LineTexts : Receive(p, Quiet, LineDepth)

LineWhole == \E p \in LineTexts : Receive(p \o <<CR>>, Quiet, LineDepth)

LineEnter == Receive(<<CR>>, Quiet, LineDepth)

LineCancel == Receive(<<ESC>>, Quiet, LineDepth)

LineBackspace == Receive(<<BS>>, Quiet, LineDepth)

NextLine ==
    \/ LineType
    \/ LineWhole
    \/ LineEnter
    \/ LineCancel
    \/ LineBackspace

SpecLine == Init /\ [][NextLine]_vars


(***************************************************************************)
(* Pins: Cx for the first, the second and the last channel and for the     *)
(* digits 0 and 9, with free pins, pins in use, the pin of the status      *)
(* LED, and values at and beyond both ends of the range.                   *)
(***************************************************************************)
PinDepth == 3

PinChannels == {0, 1, 2, 8, 9}

PinValues == {2, 3, 4, 10, 11, 16, 26, 27}

\* the line Cx:<channel>:<pin>, the pin as two hexadecimal digits
PinLine(ch, v) ==
    Str("Cx:") \o <<Ord("0") + ch, Ord(":"), HexDigit(v \div 16), HexDigit(v % 16)>>

PinSet == \E ch \in PinChannels, v \in PinValues : Send(PinLine(ch, v), Quiet, PinDepth)

PinSyntax == Send(Str("Cx:1A"), Quiet, PinDepth)

NextPin ==
    \/ PinSet
    \/ PinSyntax

SpecPin == Init /\ [][NextPin]_vars


(***************************************************************************)
(* Counters: the persistence commands, a reset to defaults, lines that are *)
(* errors, a group command and a reboot.                                   *)
(***************************************************************************)
CountDepth == 3

PersistLines ==
    {Str("S"), Str("L"), Str("Se"), Str("Li:") \o exportHex(Renamed), Str("Cd:")}

ErrorLines == {Str("Zz"), Str("h"), Str("?")}

CountPersist == \E l \in PersistLines : Send(l, Quiet, CountDepth)

CountError == \E l \in ErrorLines : Send(l, Quiet, CountDepth)

CountGroup == Send(Str("T1:1"), Quiet, CountDepth)

CountReboot == Send(Str("R"), Quiet, CountDepth)

NextCount ==
    \/ CountPersist
    \/ CountError
    \/ CountGroup
    \/ CountReboot

SpecCount == Init /\ [][NextCount]_vars


(***************************************************************************)
(* Load-time validation: the device stands in loadConfiguration behind the *)
(* memcpy of a record whose digest matched; the record is drawn from       *)
(* values at, below and above every bound, and the validation block is     *)
(* applied to it again and again.                                          *)
(***************************************************************************)
ClampDepth == 3

CountRecords ==
    {[Renamed EXCEPT !.numChannels = nc, !.numGroupsPerChannel = ng,
                     !.numLedsPerChannel = nl] :
        nc \in {0, 1, NUM_CHANNELS_MAX, NUM_CHANNELS_MAX + 1, 200, 255},
        ng \in {0, 1, NUM_GROUPS_PER_CHANNEL_MAX, NUM_GROUPS_PER_CHANNEL_MAX + 1, 200, 255},
        nl \in {NUM_LEDS_PER_CHANNEL_MIN - 1, NUM_LEDS_PER_CHANNEL_MIN,
                NUM_LEDS_PER_CHANNEL_MAX, NUM_LEDS_PER_CHANNEL_MAX + 1}}

AroundBounds(lo, hi) == {lo - 1, lo, hi, hi + 1}

TimingRecords ==
    {[LedData EXCEPT !.spacerWidth = sw, !.startOffset = so, !.blinkinterval = bl,
                     !.animateinterval = an, !.updateinterval = up, !.brightness = br] :
        sw \in {0, SPACER_WIDTH_MAX, SPACER_WIDTH_MAX + 1},
        so \in {START_OFFSET_MAX, START_OFFSET_MAX + 1},
        bl \in AroundBounds(BLINK_INTERVAL_MIN, BLINK_INTERVAL_MAX),
        an \in AroundBounds(ANIMATE_INTERVAL_MIN, ANIMATE_INTERVAL_MAX),
        up \in {UPDATE_INTERVAL_MIN - 1, UPDATE_INTERVAL_MAX},
        br \in {BRIGHTNESS_MIN - 1, BRIGHTNESS_MIN, BRIGHTNESS_MAX, BRIGHTNESS_MAX + 1}}

ClampRecords == CountRecords \cup TimingRecords \cup ForeignRecords

InitClamp ==
    \E R \in ClampRecords :
    \E s \in {Setup(Factory, "mounted", NoHeap)} :
        /\ cfg = R
        /\ TermState = s.TermState
        /\ TermPct = s.TermPct
        /\ blinkState = s.blinkState
        /\ animate_Step = s.animate_Step
        /\ ChannelUpdate = s.ChannelUpdate
        /\ SetGroupStateFlag = s.SetGroupStateFlag
        /\ timers = s.timers
        /\ leds = s.leds
        /\ fastled = s.fastled
        /\ inputBuffer = s.inputBuffer
        /\ bufferIndex = s.bufferIndex
        /\ CommandCount = s.CommandCount
        /\ errorCount = s.errorCount
        /\ currentSystemState = s.currentSystemState
        /\ fsMounted = s.fsMounted
        /\ file = Blob(ToBytes(R), SHA256(ToBytes(R)))
        /\ out = "Checksum matches, configuration loaded."
        /\ exported = s.exported
        /\ lastInput = Str("L")
        /\ saved = s.saved
        /\ strayWrites = s.strayWrites
        /\ wentDark = s.wentDark
        /\ painted = s.painted
        /\ due = s.due
        /\ bootError = s.bootError
        /\ boots = s.boots
        /\ sent = Str("L")
        /\ steps = 0

\* the validation block and the line that reports its flag
ClampApply ==
    /\ steps < ClampDepth
    /\ steps' = steps + 1
    /\ cfg' = validateLoaded(cfg)
    /\ out' = correctionNote(cfg)
    /\ UNCHANGED <<TermState, TermPct, blinkState, animate_Step, ChannelUpdate,
                   SetGroupStateFlag, timers, leds, fastled, inputBuffer, bufferIndex,
                   CommandCount, errorCount, currentSystemState, fsMounted, file,
                   exported, lastInput, saved, strayWrites, wentDark, painted, due, bootError,
                   boots, sent>>

NextClamp == ClampApply

SpecClamp == InitClamp /\ [][NextClamp]_vars


(***************************************************************************)
(* More than 256 groups: one-pixel groups without spacer, 33 of them on    *)
(* each of the 8 channels, all set by A, one set by T, and the render.     *)
(***************************************************************************)
WideDepth == 5

WideSetLines == {Str("Cw:0"), Str("Ct:33")}

WideGroupLines == {Str("A:1"), Str("T1:2")}

WideSet == \E l \in WideSetLines : Send(l, Quiet, WideDepth)

WideGroup == \E l \in WideGroupLines : Send(l, Quiet, WideDepth)

WideIdle == Idle(Quiet, WideDepth)

WideTick == Tick(writeChannelData(State), WideDepth)

NextWide ==
    \/ WideSet
    \/ WideGroup
    \/ WideIdle
    \/ WideTick

SpecWide == Init /\ [][NextWide]_vars


(***************************************************************************)
(* Group windows: spacers as wide as and wider than the pixels of a group, *)
(* the patterns 3 and 8 for state 1, group 1 in state 1, and the timers.   *)
(***************************************************************************)
WindowDepth == 5

WindowSetLines == {Str("Cw:20"), Str("Cw:9"), Str("Cp:1:3"), Str("Cp:1:8")}

WindowSet == \E l \in WindowSetLines : Send(l, Quiet, WindowDepth)

WindowGroup == Send(Str("T1:1"), Quiet, WindowDepth)

WindowIdle == Idle(Quiet, WindowDepth)

WindowTickUpdate == Tick(writeChannelData(State), WindowDepth)

WindowTickBlink == Tick(setBlinkState(State), WindowDepth)

WindowTickAnimate == Tick(animateStep(State), WindowDepth)

NextWindow ==
    \/ WindowSet
    \/ WindowGroup
    \/ WindowIdle
    \/ WindowTickUpdate
    \/ WindowTickBlink
    \/ WindowTickAnimate

SpecWindow == Init /\ [][NextWindow]_vars


(***************************************************************************)
(* Sweep: state 1 with the patterns 8 and 10, group 1 in state 1, the      *)
(* refresh and animate timers, and the animate timer firing inside the     *)
(* render of group 1, behind or inside the clipping of the step counter.   *)
(***************************************************************************)
SweepDepth == 5

SweepSetLines == {Str("Cp:1:8"), Str("Cp:1:10")}

\* where in setLEDGroup animateStep() interrupts: between the load and the store
\* of the clipping, or between the clipping and the use of the counter
TickPlaces == {"clip", "use"}

SweepSet == \E l \in SweepSetLines : Send(l, Quiet, SweepDepth)

SweepGroup == Send(Str("T1:1"), Quiet, SweepDepth)

SweepIdle == Idle(Quiet, SweepDepth)

SweepTickedPass ==
    /\ ChannelUpdate
    /\ \E m \in TickPlaces : Idle([Quiet EXCEPT !.tickAt = 0, !.tickIn = m], SweepDepth)

SweepTickUpdate == Tick(writeChannelData(State), SweepDepth)

SweepTickAnimate == Tick(animateStep(State), SweepDepth)

NextSweep ==
    \/ SweepSet
    \/ SweepGroup
    \/ SweepIdle
    \/ SweepTickedPass
    \/ SweepTickUpdate
    \/ SweepTickAnimate

SpecSweep == Init /\ [][NextSweep]_vars


(***************************************************************************)
(* The loop and its timers without a bound on the number of steps: passes  *)
(* of loop() with and without a line for group 1, the refresh, state-push  *)
(* and blink callbacks at any moment, the state-push callback also while   *)
(* FastLED.show() runs.  loop() is called again and again, so a pass that  *)
(* would change the state is eventually made; no timer is obliged to fire. *)
(***************************************************************************)
LiveCommands == 3

LiveLines == {Str("T1:1"), Str("T1:0")}

\* a pass of loop() over the characters chars
Pass(chars, env) ==
    /\ sent' = chars
    /\ steps' = steps
    /\ \E s \in {loop(State, chars, env)} : Become(s)

\* a Ticker callback runs
Fire(s) ==
    /\ UNCHANGED <<sent, steps>>
    /\ Become([s EXCEPT !.painted = FALSE])

LivePass == \E b \in BOOLEAN : Pass(<<>>, [Quiet EXCEPT !.tickShow = b])

LiveGroup ==
    /\ CommandCount < LiveCommands
    /\ \E l \in LiveLines : Pass(l \o <<CR>>, Quiet)

LiveTickUpdate == Fire(writeChannelData(State))

LiveTickPush == Fire(setGroupState(State))

LiveTickBlink == Fire(setBlinkState(State))

NextLive ==
    \/ LivePass
    \/ LiveGroup
    \/ LiveTickUpdate
    \/ LiveTickPush
    \/ LiveTickBlink

SpecLive == Init /\ [][NextLive]_vars /\ WF_vars(LivePass)


(***************************************************************************)
(* Group State Table: the commands T, P, A, M and X with group ids,        *)
(* states and percentages inside and outside their ranges, malformed       *)
(* arguments, and an M line longer than the table.                         *)
(***************************************************************************)
TableDepth == 2

TableIds == {0, 1, 48, 99, 100, 800, 801}

TableStates == {0, 9, 10}

TablePcts == {0, 50, 101}

\* the line T<id>:<state>
TLine(id, state) == Str("T") \o Dec(id) \o Str(":") \o Dec(state)

\* the line P<id>:<state>:<pct>
PLine(id, state, pct) ==
    Str("P") \o Dec(id) \o Str(":") \o Dec(state) \o Str(":") \o Dec(pct)

\* the line A:<state>
ALine(state) == Str("A:") \o Dec(state)

MassLines == {Str("M:120"), Str("M:9"), Str("M:"), Str("M:1x2"), Str("M120")}

MalformedLines ==
    {Str("T1:-1"), Str("T-1:1"), Str("T1:x"), Str("T1"), Str("Tx:1"), Str("T:1:1"),
     Str("P1:1"), Str("P1:1:-1"), Str("P1:1:x"), Str("A:x"), Str("A:-1"), Str("A5")}

\* what the stack holds after the one-char local ST of case 'M'
StackAfterST == {<<>>, Str("7")}

\* M: followed by MAX_GROUPS + 1 digits
LongMass == Str("M:") \o [i \in 1..(MAX_GROUPS + 1) |-> Ord("1")]

TableT == \E id \in TableIds, st \in TableStates : Send(TLine(id, st), Quiet, TableDepth)

TableP ==
    \E id \in {1, 100}, st \in {9, 10}, pct \in TablePcts :
        Send(PLine(id, st, pct), Quiet, TableDepth)

TableA == \E st \in TableStates : Send(ALine(st), Quiet, TableDepth)

TableM ==
    \E l \in MassLines, st \in StackAfterST :
        Send(l, [Quiet EXCEPT !.stack = st], TableDepth)

TableX == Send(Str("X"), Quiet, TableDepth)

TableMalformed == \E l \in MalformedLines : Send(l, Quiet, TableDepth)

TableLong == Send(LongMass, Quiet, TableDepth)

NextTable ==
    \/ TableT
    \/ TableP
    \/ TableA
    \/ TableM
    \/ TableX
    \/ TableMalformed
    \/ TableLong

SpecTable == Init /\ [][NextTable]_vars


(***************************************************************************)
(* The documented domain of each field of a Configuration Record.          *)
(***************************************************************************)
IsByte(v) == v \in Byte

FieldInDomain(f, v) ==
    CASE f = "identifier"          -> Len(v) = IDENTIFIER_MAX_LENGTH /\ \E i \in 1..Len(v) : v[i] = 0
      [] f = "numLedsPerChannel"   -> v >= NUM_LEDS_PER_CHANNEL_MIN /\ v <= NUM_LEDS_PER_CHANNEL_MAX
      [] f = "numChannels"         -> v >= 1 /\ v <= NUM_CHANNELS_MAX
      [] f = "numGroupsPerChannel" -> v >= 1 /\ v <= NUM_GROUPS_PER_CHANNEL_MAX
      [] f = "spacerWidth"         -> v >= 0 /\ v <= SPACER_WIDTH_MAX
      [] f = "startOffset"         -> v >= 0 /\ v <= START_OFFSET_MAX
      [] f = "blinkinterval"       -> v >= BLINK_INTERVAL_MIN /\ v <= BLINK_INTERVAL_MAX
      [] f = "animateinterval"     -> v >= ANIMATE_INTERVAL_MIN /\ v <= ANIMATE_INTERVAL_MAX
      [] f = "updateinterval"      -> v >= UPDATE_INTERVAL_MIN /\ v <= UPDATE_INTERVAL_MAX
      [] f = "brightness"          -> v >= BRIGHTNESS_MIN /\ v <= BRIGHTNESS_MAX
      [] f = "fadingAnimation"     -> v >= 0 /\ v <= 255
      [] f = "fading2Step"         -> v >= 0 /\ v <= 255
      [] f = "startupAnimation"    -> v \in {0, 1}
      [] f = "CommandEcho"         -> v \in {0, 1}
      [] f = "channelGPIOpin"      -> \A i \in 1..Len(v) : v[i] >= GPIO_PIN_MIN /\ v[i] <= GPIO_PIN_MAX
      [] f = "state_pattern"       -> \A i \in 1..Len(v) : v[i] >= 0 /\ v[i] <= MAX_PATTERN
      [] f = "state_color"         -> \A i \in 1..Len(v) : \A k \in 1..3 : IsByte(v[i][k])
      [] f = "channelOrder"        -> {v[i] : i \in 1..Len(v)} = 1..NUM_CHANNELS_DEFAULT

FieldsInDomain(c) == \A f \in DOMAIN c : FieldInDomain(f, c[f])

\* a valid Configuration Record: every field in its domain, and the two
\* cross-field conditions
ValidRecord(c) ==
    /\ FieldsInDomain(c)
    /\ c.numChannels * c.numGroupsPerChannel <= MAX_GROUPS
    /\ c.updateinterval < c.blinkinterval

\* the record is a compiled-in default in every field: the initialiser of the
\* struct member or the value the reset to defaults assigns
IsCompiledDefault(c) ==
    \A f \in DOMAIN c : c[f] = LedData[f] \/ c[f] = resetToDefaults(LedData)[f]

\* the last step dispatched the line l as a command
Dispatched(l) == CommandCount' = CommandCount + 1 /\ lastInput' = l

LoadedMsg   == "Checksum matches, configuration loaded."
MismatchMsg == "Checksum mismatch, configuration is corrupted!"
NoRecordMsgs == {"NOTE: Failed opening confgfile", "NOTE: File is empty!"}

\* C1: every pixel write of the render (setLEDGroup) names an element of the pixel
\* block: a channel index of the array and a pixel index in 0..599, whatever the
\* configuration the accepted commands have produced and whatever the group table
\* holds; no write goes below index 0 or past the end of a channel buffer.
C1_RenderInBounds == strayWrites = {}

(***************************************************************************)
(* Claims about the configuration store, under SpecStore.                  *)
(***************************************************************************)
\* C2: after any sequence of commands the in-memory configuration satisfies
\* numChannels * numGroupsPerChannel <= MAX_GROUPS.
C2_CapacityAlways == cfg.numChannels * cfg.numGroupsPerChannel <= MAX_GROUPS

\* C3: after a successful load from storage (the last command was L and it
\* reported that the checksum matches) every field of the in-memory record
\* lies in its documented domain.
C3_LoadedInDomain ==
    (lastInput = Str("L") /\ out = LoadedMsg) => FieldsInDomain(cfg)

\* C4: the update interval is strictly smaller than the blink interval in the
\* in-memory configuration after every command.
C4_UpdateBelowBlink == cfg.updateinterval < cfg.blinkinterval

\* C5: when a valid record R was saved by S and the file still holds the blob
\* that S wrote, L succeeds and leaves the in-memory record equal to R,
\* whatever the record was changed to after the save.
C5_SaveLoadRoundTrip ==
    [][(/\ Dispatched(Str("L"))
        /\ saved # <<>>
        /\ ValidRecord(saved[1])
        /\ file = Blob(ToBytes(saved[1]), SHA256(ToBytes(saved[1]))))
       => (out' = LoadedMsg /\ cfg' = saved[1])]_vars

\* C5 witness: a record was saved, a setter then changed the record in memory
\* (the refresh timer still runs at the changed period), and L brought the
\* saved record back.
C5_Witness ==
    /\ lastInput = Str("L") /\ out = LoadedMsg
    /\ saved # <<>> /\ cfg = saved[1] /\ ValidRecord(cfg)
    /\ timers.update # cfg.updateinterval

\* C6: the CONFIG: line printed by Se, sent back as Li:CONFIG:<hex>, reaches
\* the dispatcher whole, is accepted, and leaves the in-memory record equal,
\* byte for byte, to the record it was printed from.
C6_HexRoundTrip ==
    [][(exported # <<>> /\ steps' = steps + 1 /\ sent' = Str("Li:") \o exported[1])
       => (/\ lastInput' = sent'
           /\ out' = "Configuration imported successfully!"
           /\ cfg' = exported[2]
           /\ ToBytes(cfg') = ToBytes(exported[2]))]_vars

\* C6 witness: a record was exported, a setter changed the record in memory,
\* and the import of the printed line restored the exported record.
C6_Witness ==
    /\ exported # <<>> /\ sent = Str("Li:") \o exported[1]
    /\ out = "Configuration imported successfully!"
    /\ cfg = exported[2]
    /\ timers.update # cfg.updateinterval

\* the stored blob's digest differs from the digest of its record bytes
DigestMismatch(f) == f.kind = "blob" /\ f.digest # SHA256(f.data)

\* C7: when the stored blob's digest differs from the digest recomputed over
\* its record bytes, an L command reports the mismatch and leaves the record in
\* memory as it was, and a boot that reads the blob ends with the defaults and
\* the load failure noted: no byte of the blob is applied.
C7_CorruptNeverApplied ==
    [][DigestMismatch(file) =>
         /\ Dispatched(Str("L")) => (out' = MismatchMsg /\ cfg' = cfg)
         /\ (boots' = boots + 1 /\ file' = file)
               => (bootError' /\ cfg' = resetToDefaults(LedData))]_vars

\* C7 witness: a saved blob had a record byte changed in flash, L reported the
\* mismatch, and the record in memory differs from the bytes in the file.
C7_Witness ==
    /\ lastInput = Str("L") /\ out = MismatchMsg
    /\ DigestMismatch(file) /\ file.digest = SHA256(ToBytes(cfg))
    /\ file.data # ToBytes(cfg)

\* C8: whenever the load fails because the checksum does not match or no
\* stored record exists, at boot (no command has run since) or on an L command,
\* the in-memory configuration equals the compiled-in defaults.
C8_DefaultsAfterFailedLoad ==
    /\ (bootError /\ CommandCount = 0) => IsCompiledDefault(cfg)
    /\ (lastInput = Str("L") /\ out \in NoRecordMsgs \cup {MismatchMsg})
          => IsCompiledDefault(cfg)

HexAlphabet == {Ord(SubSeq("0123456789ABCDEFabcdef", i, i)) : i \in 1..22}

ImportTag == Str("Li:CONFIG:")

\* l is an Li:CONFIG:<hex> line whose hex text has the wrong length or holds a
\* character outside the hexadecimal alphabet
BadImport(l) ==
    /\ Len(l) >= Len(ImportTag)
    /\ SubSeq(l, 1, Len(ImportTag)) = ImportTag
    /\ \/ Len(l) - Len(ImportTag) # 2 * SizeofLedData
       \/ \E i \in (Len(ImportTag) + 1)..Len(l) : l[i] \notin HexAlphabet

\* C9: an Li:CONFIG:<hex> import whose hex text has not exactly the expected
\* length, or holds a character outside 0-9/A-F/a-f, is rejected and leaves the
\* in-memory configuration unchanged.
C9_BadImportRejected ==
    [][(CommandCount' = CommandCount + 1 /\ BadImport(lastInput'))
       => (/\ cfg' = cfg
           /\ out' \in {"ERROR: Invalid hex length.", "ERROR: Invalid hex character"})]_vars

\* C9 witness: a record changed by a setter survived an import of the right
\* length that holds a character outside the alphabet.
C9_Witness ==
    /\ BadImport(lastInput) /\ Len(lastInput) = Len(ImportTag) + 2 * SizeofLedData
    /\ out = "ERROR: Invalid hex character"
    /\ cfg.spacerWidth = 5

\* C10: every C<item>:<value> setter stores a value only when it lies in the
\* documented domain of its field: each field that a C command changes holds a
\* value of its domain afterwards.
C10_SettersStoreInDomain ==
    [][(CommandCount' = CommandCount + 1 /\ lastInput' # <<>> /\ lastInput'[1] = Ord("C"))
       => \A f \in DOMAIN cfg : cfg'[f] = cfg[f] \/ FieldInDomain(f, cfg'[f])]_vars


(***************************************************************************)
(* Claims about the timers, under SpecClock.                               *)
(***************************************************************************)
BlinkOrderMsg == "Invalid blinking-interval, needs to be bigger than current update-interval"

\* C11: a Cb command whose value is not greater than the current update interval
\* is rejected: the stored blink interval stays as it was, and no timer is
\* detached or attached, so the blink timer keeps the period it was armed with.
C11_BlinkBelowUpdateRejected ==
    [][\A v \in ClockValues :
          (sent' = SetLine("b", v) /\ v <= cfg.updateinterval)
          => (cfg'.blinkinterval = cfg.blinkinterval /\ timers' = timers)]_vars

\* a Cb value inside the blink range but not above the update interval was refused
C11_Witness ==
    \E v \in ClockValues :
        /\ sent = SetLine("b", v)
        /\ v >= BLINK_INTERVAL_MIN /\ v <= BLINK_INTERVAL_MAX
        /\ v <= cfg.updateinterval
        /\ out = BlinkOrderMsg

\* the timer was detached and attached once, with period v
ReArmed(name, v) ==
    timers'[name] = v /\ timers'.armed[name] = timers.armed[name] + 1

\* the timer was neither detached nor attached
Kept(name) ==
    timers'[name] = timers[name] /\ timers'.armed[name] = timers.armed[name]

\* C12: a successful interval setter re-arms the timer it names with the new
\* value and no other: Ca the animate timer, Cb the blink timer, Cu the refresh
\* timer with v and the state-push timer with 2 * v.
C12_SetterReArmsItsTimer ==
    [][\A v \in ClockValues :
          /\ (sent' = SetLine("a", v) /\ v >= ANIMATE_INTERVAL_MIN /\ v <= ANIMATE_INTERVAL_MAX)
             => (ReArmed("animate", v) /\ Kept("blink") /\ Kept("update") /\ Kept("setgroup"))
          /\ (sent' = SetLine("b", v) /\ v >= BLINK_INTERVAL_MIN /\ v <= BLINK_INTERVAL_MAX
                /\ v > cfg.updateinterval)
             => (ReArmed("blink", v) /\ Kept("animate") /\ Kept("update") /\ Kept("setgroup"))
          /\ (sent' = SetLine("u", v) /\ v >= UPDATE_INTERVAL_MIN /\ v <= UPDATE_INTERVAL_MAX
                /\ v < cfg.blinkinterval)
             => (ReArmed("update", v) /\ ReArmed("setgroup", 2 * v)
                 /\ Kept("animate") /\ Kept("blink"))]_vars

\* a Cu was accepted: both of its timers run at the new periods, started a second time
C12_Witness ==
    \E v \in ClockValues :
        /\ sent = SetLine("u", v)
        /\ out = "Update interval"
        /\ timers.update = v /\ timers.setgroup = 2 * v
        /\ timers.armed.update = 2 /\ timers.armed.setgroup = 2
        /\ timers.armed.blink = 1 /\ timers.armed.animate = 1

\* C13: after the Cd command every field of the record in memory equals the
\* compiled-in default of that field, whatever setters, loads or imports came
\* before: the animation interval, the two flags and the per-state tables too.
C13_ResetRestoresDefaults ==
    [][sent' = Str("Cd:") => IsCompiledDefault(cfg')]_vars


(***************************************************************************)
(* Claims about the group table and the render, under SpecRender.          *)
(***************************************************************************)
\* the step is a pass of loop() that ran updateGroups
Rendered == ChannelUpdate /\ ~ChannelUpdate' /\ boots' = boots

\* the groups the render visits
Configured(c) == 0..(c.numGroupsPerChannel * c.numChannels - 1)

\* the window of group g under the record c: channel, first pixel, width
Window(c, g) == geometry(c, g, 0, 100, FALSE, 0)

\* the window is made of pixels of its own channel buffer
WindowInBuffer(c, g) ==
    /\ Window(c, g).fullgroupWidth > 0
    /\ InRange(Window(c, g).channelIndex, Window(c, g).startLEDIndex)
    /\ InRange(Window(c, g).channelIndex,
               Window(c, g).startLEDIndex + Window(c, g).fullgroupWidth - 1)

\* the pixels of the window of g that are not black in the pixel map L
LitPixels(L, c, g) ==
    {i \in 0..(Window(c, g).fullgroupWidth - 1) :
        Get(L, <<Window(c, g).channelIndex, Window(c, g).startLEDIndex + i>>, Black) # Black}

\* round(width * pct / 100), halves away from zero, raised to 1 when pct > 0
ExpectedFill(width, pct) ==
    IF pct = 0 THEN 0
    ELSE IF (2 * width * pct + 100) \div 200 = 0 THEN 1
    ELSE (2 * width * pct + 100) \div 200

\* the colour the state is drawn with is not black
Visible(c, state) == fadeLightBy(c.state_color[state + 1], c.fading2Step) # Black

\* C14: after a render, a group whose fill percent is below 100 has exactly
\* round(width * pct / 100) lit pixels in its window (at least 1 when pct > 0,
\* none when pct = 0), whatever pattern its state has and whatever the group
\* showed in earlier renders.
C14_PercentFill ==
    [][Rendered =>
         \A g \in Configured(cfg') :
             (/\ Get(TermPct', g, 0) < 100
              /\ Visible(cfg', Get(TermState', g, 0))
              /\ WindowInBuffer(cfg', g))
             => Cardinality(LitPixels(leds', cfg', g))
                  = ExpectedFill(Window(cfg', g).fullgroupWidth, Get(TermPct', g, 0))]_vars

\* the record is the one a boot without a stored record leaves
IsDefaultConfig(c) == c = LedData \/ c = resetToDefaults(LedData)

\* C15: with the default configuration the line T:1:1 sets group 1 to state 1
\* at 100 % fill, and a render in the same pass of loop() shows every pixel of
\* the window of group 1 lit.
C15_ColonFormSetsGroup ==
    [][(sent' = Str("T:1:1") /\ IsDefaultConfig(cfg))
         => /\ Get(TermState', 0, 0) = 1
            /\ Get(TermPct', 0, 0) = 100
            /\ Rendered => Cardinality(LitPixels(leds', cfg', 0))
                              = Window(cfg', 0).fullgroupWidth]_vars

\* C16: T<id>:<state> with id in 1..MAX_GROUPS and state in 0..9 sets that
\* group's state, sets its fill percent to 100 and changes no other entry of
\* the Group State Table; with an id or a state outside these ranges the table
\* is left as it was.
TAccepted(id, st) == id \in MIN_GROUP_ID..MAX_GROUPS /\ st \in 0..MAX_STATE_VALUE

C16_TSetsEveryGroup ==
    [][\A id \in TableIds, st \in TableStates :
          sent' = TLine(id, st) =>
              IF TAccepted(id, st)
              THEN /\ TermState' = Put(TermState, id - 1, st, 0)
                   /\ TermPct' = Put(TermPct, id - 1, 100, 0)
              ELSE TermState' = TermState /\ TermPct' = TermPct]_vars

\* C17: M:<d1 d2 ... dn> with n digits sets group i to state d_i at 100% fill
\* for every i in 1..min(n, MAX_GROUPS) and leaves the state and the fill
\* percent of every group beyond n unchanged.
DigitLines ==
    {l \in MassLines : Len(l) > 2 /\ l[2] = Ord(":") /\ \A i \in 3..Len(l) : IsDigit(l[i])}

Listed(l, g) == g + 3 <= Len(l)

C17_MassSetsListedGroups ==
    [][\A l \in DigitLines :
          sent' = l =>
              \A g \in GroupIdx :
                  IF Listed(l, g)
                  THEN /\ Get(TermState', g, 0) = l[g + 3] - Ord("0")
                       /\ Get(TermPct', g, 0) = 100
                  ELSE /\ Get(TermState', g, 0) = Get(TermState, g, 0)
                       /\ Get(TermPct', g, 0) = Get(TermPct, g, 0)]_vars

\* C18: an M: line with more digits than MAX_GROUPS reaches the M handler with
\* all its digits: the line handed to checkInput is the line entered, and the
\* first MAX_GROUPS digits are applied to the table.
C18_LongMassReachesHandler ==
    [][sent' = LongMass =>
          /\ lastInput' = LongMass
          /\ TermState' = AllGroups(1)
          /\ TermPct' = AllGroups(100)]_vars

\* C19: a render that follows A:0, with no other command in between, leaves
\* the window of every configured group fully dark, whatever the groups showed
\* in earlier renders.
AfterAllOff == Rendered /\ lastInput' = Str("A:0")

C19_AllOffIsDark ==
    [][AfterAllOff =>
          \A g \in Configured(cfg') :
              WindowInBuffer(cfg', g) => LitPixels(leds', cfg', g) = {}]_vars

\* the render after A:0 has turned lit pixels black and every window is dark
C19_Witness ==
    /\ lastInput = Str("A:0")
    /\ wentDark
    /\ \A g \in Configured(cfg) : WindowInBuffer(cfg, g) /\ LitPixels(leds, cfg, g) = {}

\* C20: every entry of the Group State Table has a state in 0..9 and a fill
\* percent in 0..100, after any sequence of T, P, A, M and X lines, well formed
\* or not.
C20_TableInRange ==
    /\ DOMAIN TermState \subseteq GroupIdx
    /\ DOMAIN TermPct \subseteq GroupIdx
    /\ \A g \in GroupIdx :
          /\ Get(TermState, g, 0) \in 0..MAX_STATE_VALUE
          /\ Get(TermPct, g, 0) \in 0..100

\* group 1 holds state 9 at 50 % and a P line with percent 101 was refused
C20_Witness ==
    /\ lastInput = PLine(1, 9, 101)
    /\ Get(TermState, 0, 0) = 9
    /\ Get(TermPct, 0, 0) = 50


(***************************************************************************)
(* Claims about the channel order, under SpecOrder.                        *)
(***************************************************************************)
Channels == 1..NUM_CHANNELS_DEFAULT

IsPermutation(order) ==
    /\ Len(order) = NUM_CHANNELS_DEFAULT
    /\ {order[i] : i \in 1..Len(order)} = Channels

StandardOrder == [i \in Channels |-> i]

\* the members of S in ascending order
RECURSIVE Ascending(_)
Ascending(S) ==
    IF S = {} THEN <<>>
    ELSE <<CHOOSE x \in S : \A y \in S : x <= y>>
         \o Ascending(S \ {CHOOSE x \in S : \A y \in S : x <= y})

IsStandardWord(v) == v \in {Str("N"), Str("n"), Str("F"), Str("f")}

\* 1 to 8 distinct digits 1..8
IsDistinctOrder(v) ==
    /\ Len(v) \in 1..8
    /\ \A i \in 1..Len(v) : v[i] - Ord("0") \in Channels
    /\ \A i, j \in 1..Len(v) : i # j => v[i] # v[j]

Completed(v) ==
    [i \in 1..Len(v) |-> v[i] - Ord("0")]
    \o Ascending(Channels \ {v[i] - Ord("0") : i \in 1..Len(v)})

\* C21: the channel order is a permutation of the channels 1..8 at boot and
\* after every Cz and Cd; k distinct digits give those digits followed by the
\* missing channels in ascending order, the words N and F and the command Cd
\* give 12345678, and a value with a duplicate, with a character outside 1..8,
\* empty or longer than 8 leaves the order as it was.
C21_OrderIsPermutation ==
    /\ IsPermutation(cfg.channelOrder)
    /\ [][/\ IsPermutation(cfg'.channelOrder)
          /\ sent' = Str("Cd:") => cfg'.channelOrder = StandardOrder
          /\ \A v \in OrderValues :
                sent' = OrderLine(v) =>
                    cfg'.channelOrder =
                        IF IsStandardWord(v) THEN StandardOrder
                        ELSE IF IsDistinctOrder(v) THEN Completed(v)
                        ELSE cfg.channelOrder]_vars

\* the partial order 31 was completed to 31245678
C21_Witness ==
    /\ lastInput = OrderLine(Str("31"))
    /\ cfg.channelOrder = <<3, 1, 2, 4, 5, 6, 7, 8>>


(***************************************************************************)
(* Claims about the mode of the status indicator.                          *)
(***************************************************************************)
\* C22: when the load of the configuration failed during setup() the mode is
\* Error in every state until the next reboot, and the mode is Normal only
\* after a setup() without that failure.
C22_ErrorIsFinal ==
    /\ bootError => currentSystemState = "SYSTEM_ERROR"
    /\ currentSystemState = "SYSTEM_NORMAL" => ~bootError


(***************************************************************************)
(* Claims about the serial line, under SpecSerial.                         *)
(***************************************************************************)
\* the characters of the line being typed
Pending == SubSeq(inputBuffer, 1, bufferIndex)

\* nothing was handed to a command: no counter moved, record and table kept
NothingDispatched ==
    /\ CommandCount' = CommandCount
    /\ errorCount' = errorCount
    /\ lastInput' = lastInput
    /\ cfg' = cfg
    /\ TermState' = TermState
    /\ TermPct' = TermPct

\* C23: a terminator dispatches the pending line once when the line is not
\* empty and leaves the line empty; a terminator on an empty line, alone or as
\* the second character of a two-character line ending, dispatches nothing,
\* moves no counter and changes neither the record nor the table.
C23_OneDispatchPerLine ==
    [][sent' \in Terminators =>
          /\ Pending' = <<>>
          /\ IF Pending = <<>> THEN NothingDispatched
             ELSE CommandCount' = CommandCount + 1 /\ lastInput' = Pending]_vars

\* T1:1 was dispatched once by a two-character line ending
C23_Witness ==
    /\ sent = <<CR, LF>>
    /\ lastInput = Str("T1:1")
    /\ CommandCount = 1
    /\ Get(TermState, 0, 0) = 1

\* the line without its last character
Erased(line) == IF line = <<>> THEN <<>> ELSE SubSeq(line, 1, Len(line) - 1)

\* C24: Escape and Ctrl-C empty the pending line and dispatch nothing; text is
\* appended to the pending line; Backspace removes its last character and does
\* nothing on an empty line; a terminator dispatches the pending line and
\* nothing else, and dispatches nothing when the line is empty, as it is
\* directly after a cancel.
C24_CancelDiscardsLine ==
    [][/\ sent' \in Cancels => (Pending' = <<>> /\ NothingDispatched)
       /\ sent' \in SerialText => (Pending' = Pending \o sent' /\ NothingDispatched)
       /\ sent' = <<BS>> => (Pending' = Erased(Pending) /\ NothingDispatched)
       /\ sent' \in Terminators =>
             IF Pending = <<>> THEN NothingDispatched ELSE lastInput' = Pending]_vars

\* a line that held text has just been cancelled
C24_Witness ==
    /\ sent \in Cancels
    /\ out = "CANCELLED"
    /\ inputBuffer # <<>>
    /\ Pending = <<>>
    /\ CommandCount = 0

\* C25: when one character more than the line may hold has arrived, the
\* MAX_INPUT_LEN - 1 characters collected are dispatched as a command.
C25_FullLineIsDispatched ==
    [][sent' = FullLine =>
          /\ CommandCount' = CommandCount + 1
          /\ lastInput' = SubSeq(FullLine, 1, MAX_INPUT_LEN - 1)]_vars

\* the letters that name a command
CommandLetters ==
    {Ord("H"), Ord("V"), Ord("D"), Ord("C"), Ord("S"), Ord("L"), Ord("T"), Ord("P"),
     Ord("A"), Ord("Q"), Ord("G"), Ord("M"), Ord("X"), Ord("W"), Ord("I"), Ord("R")}

\* the step dispatches a line whose first character names no command
DispatchesBadLetter ==
    sent' \in Terminators /\ Pending # <<>> /\ Pending[1] \notin CommandLetters

C27_QuestionMarkIsHelp ==
    [][(sent' \in Terminators /\ Pending = Str("?")) =>
          /\ out' = "=== SIGHT Command Reference ==="
          /\ errorCount' = errorCount]_vars


(***************************************************************************)
(* Claims about the counters, under SpecCount.                             *)
(***************************************************************************)
\* C28: between reboots the command counter grows by exactly one with every
\* dispatched line and the error counter by one or not at all, the error
\* counter never exceeds the command counter, and S, L, Se, Li:CONFIG and Cd
\* do nothing to the counters beyond the count of the command itself: no
\* stored or default value replaces them and the error counter stays.
C28_CountersOnlyGrow ==
    /\ errorCount <= CommandCount
    /\ [][boots' = boots =>
             /\ CommandCount' = CommandCount + 1
             /\ errorCount' \in {errorCount, errorCount + 1}
             /\ errorCount' <= CommandCount'
             /\ sent' \in PersistLines => errorCount' = errorCount]_vars

\* a load after a save and an error line: the counters kept counting
C28_Witness ==
    /\ lastInput = Str("L")
    /\ out = LoadedMsg
    /\ CommandCount = 3
    /\ errorCount = 1


(***************************************************************************)
(* Claims about the reboot, under SpecStore.                               *)
(***************************************************************************)
\* the flash holds, unchanged, the blob the last successful S wrote
StoredIntact ==
    /\ saved # <<>>
    /\ file = Blob(ToBytes(saved[1]), SHA256(ToBytes(saved[1])))

\* C29: after a reboot the Group State Table is all zero; when the flash still
\* holds the blob of the last successful S and is mounted, the record is that
\* saved record as the loader validates it, whatever setters, Cd or imports
\* changed in memory after the save; otherwise (nothing stored, the stored blob
\* damaged or gone) the record is the compiled-in defaults.
C29_RebootRestoresSaved ==
    [][boots' = boots + 1 =>
          /\ TermState' = EmptyMap
          /\ TermPct' = EmptyMap
          /\ IF StoredIntact /\ file' = file
             THEN cfg' = validateLoaded(saved[1])
             ELSE IsCompiledDefault(cfg')]_vars

\* the device has rebooted into a saved record that is not a default, and the
\* refresh timer runs at the saved period
C29_Witness ==
    /\ boots = 2
    /\ CommandCount = 0
    /\ StoredIntact
    /\ cfg = saved[1]
    /\ ~IsCompiledDefault(cfg)
    /\ ~bootError

\* C30: the load-time validation applied to a record it has already corrected
\* changes no field and raises no correction flag, whatever record the first
\* application started from; a corrected record never exceeds MAX_GROUPS
C30_ClampIsIdempotent ==
    /\ [](steps >= 1 => cfg.numChannels * cfg.numGroupsPerChannel <= MAX_GROUPS)
    /\ [][steps >= 1 => (cfg' = cfg /\ out' = NoNote)]_vars

\* the record with 200 channels of 200 groups, corrected and validated again
C30_Witness ==
    /\ steps = 2
    /\ out = NoNote
    /\ cfg = [Renamed EXCEPT !.numLedsPerChannel = NUM_LEDS_PER_CHANNEL_DEFAULT]

\* the window of group g of the record c: channel, first pixel, width
WindowOf(c, g) ==
    [ch    |-> c.channelOrder[(g \div c.numGroupsPerChannel) + 1] - 1,
     start |-> (g % c.numGroupsPerChannel) * (c.numLedsPerChannel \div c.numGroupsPerChannel)
                 + c.startOffset,
     width |-> (c.numLedsPerChannel \div c.numGroupsPerChannel) - c.spacerWidth]

\* a group at full fill whose state has the solid pattern shows, on every pixel of
\* its window, the colour of the state in its own table entry
ShowsOwnEntry(s, g) ==
    LET st == Get(s.TermState, g, 0)
        w  == WindowOf(s.cfg, g)
    IN  (Get(s.TermPct, g, 0) = 100 /\ s.cfg.state_pattern[st + 1] = 0)
        => \A i \in 0..(w.width - 1) :
              pixel(s, w.ch, w.start + i) = fadeLightBy(s.cfg.state_color[st + 1], s.cfg.fading2Step)

\* the state the step leads to
StateAfter ==
    [cfg |-> cfg', TermState |-> TermState', TermPct |-> TermPct', leds |-> leds']

\* C31: a render pass draws every configured group from its own table entry
\* onto the channel channelOrder[g div numGroupsPerChannel] at the position
\* g mod numGroupsPerChannel, group indices above 255 included
C31_EveryGroupFromOwnEntry ==
    [][Rendered => \A g \in Configured(cfg') : ShowsOwnEntry(StateAfter, g)]_vars

\* the pixel <<ch, i>> lies in the window of a configured group of the record c
InSomeWindow(c, q) ==
    \E g \in Configured(c) :
        /\ q[1] = WindowOf(c, g).ch
        /\ q[2] >= WindowOf(c, g).start
        /\ q[2] < WindowOf(c, g).start + WindowOf(c, g).width

\* the pixels whose value the step changes
ChangedPixels ==
    {q \in DOMAIN leds \cup DOMAIN leds' : Get(leds, q, Black) # Get(leds', q, Black)}

\* C32: the render of a group changes only pixels of that group's own window;
\* so a render pass changes no pixel outside the windows of the configured
\* groups and writes no element outside the channel buffers
C32_RenderStaysInWindows ==
    [][Rendered => /\ \A q \in ChangedPixels : InSomeWindow(cfg', q)
                   /\ strayWrites' = strayWrites]_vars

\* a step in which one of the four Ticker callbacks runs
TimerStep == TickUpdate \/ TickBlink \/ TickAnimate \/ TickSetGroup

\* what a callback leaves alone: pixel buffers, record, table, and no paint
CallbackLeavesData ==
    /\ leds' = leds
    /\ strayWrites' = strayWrites
    /\ cfg' = cfg
    /\ TermState' = TermState
    /\ TermPct' = TermPct
    /\ ~painted'

\* what a callback does: raise one flag, toggle the phase, or count every step up
CallbackSignals ==
    \/ /\ ChannelUpdate' /\ SetGroupStateFlag' = SetGroupStateFlag
       /\ blinkState' = blinkState /\ animate_Step' = animate_Step
    \/ /\ SetGroupStateFlag' /\ ChannelUpdate' = ChannelUpdate
       /\ blinkState' = blinkState /\ animate_Step' = animate_Step
    \/ /\ blinkState' = ~blinkState /\ animate_Step' = animate_Step
       /\ ChannelUpdate' = ChannelUpdate /\ SetGroupStateFlag' = SetGroupStateFlag
    \/ /\ animate_Step' = [i \in DOMAIN animate_Step |-> (animate_Step[i] + 1) % 256]
       /\ blinkState' = blinkState
       /\ ChannelUpdate' = ChannelUpdate /\ SetGroupStateFlag' = SetGroupStateFlag

\* a pass of loop() that does not end in a reboot
LoopPass == ~TimerStep /\ steps' = steps + 1 /\ boots' = boots

\* C33: a timer callback only raises a flag, toggles the blink phase or counts
\* the step counters up, and touches neither pixel buffers, record, table nor
\* the paint; a pass of loop() paints when the state-push flag is set and
\* renders when the refresh flag is set, clears both flags, and without the
\* refresh flag lights no pixel; each flag holds at most one pending signal
C33_CallbacksOnlySignal ==
    /\ [](ChannelUpdate \in BOOLEAN /\ SetGroupStateFlag \in BOOLEAN)
    /\ [][TimerStep => (CallbackLeavesData /\ CallbackSignals)]_vars
    /\ [][LoopPass =>
            /\ ~ChannelUpdate' /\ ~SetGroupStateFlag'
            /\ SetGroupStateFlag => painted'
            /\ ~ChannelUpdate => \A q \in ChangedPixels : Get(leds', q, Black) = Black]_vars

\* a pass of loop() has painted and rendered a lit group after both flags were raised
C33_Witness ==
    /\ steps = RenderDepth
    /\ sent = <<>>
    /\ painted
    /\ ~ChannelUpdate
    /\ ~SetGroupStateFlag
    /\ leds # EmptyMap

\* the patterns whose picture depends on the step counter
SweepPatterns == 8..MAX_PATTERN

\* the period of pattern p at full fill under the record c
PeriodOf(c, p) ==
    modulus(p, (c.numLedsPerChannel \div c.numGroupsPerChannel) - c.spacerWidth)

\* the sweep position of pattern p moves by n steps
Advances(p, n) ==
    animate_Step'[p + 1] % PeriodOf(cfg, p)
        = (animate_Step[p + 1] + n) % PeriodOf(cfg, p)

\* a step in which the animate timer fires once, alone or inside a render pass
AnimateTicked == SweepTickAnimate \/ SweepTickedPass

\* C34: the step counters are changed by the animate tick only, and no tick is
\* lost wherever it falls: in a step in which the animate timer fires once the
\* sweep position of every pattern 8-12 advances by exactly one step modulo its
\* period, and in a step without a tick no counter changes
C34_NoTickLost ==
    [][(cfg' = cfg /\ boots' = boots) =>
          /\ AnimateTicked => \A p \in SweepPatterns : Advances(p, 1)
          /\ ~AnimateTicked => animate_Step' = animate_Step]_vars

HalvesShown(s, g, leftOn) ==
    LET st == Get(s.TermState, g, 0)
        w  == WindowOf(s.cfg, g)
        h  == w.width \div 2
        on == fadeLightBy(s.cfg.state_color[st + 1], s.cfg.fading2Step)
    IN  (Get(s.TermPct, g, 0) = 100 /\ s.cfg.state_pattern[st + 1] = 3)
        => \A i \in 0..(h - 1) :
              /\ pixel(s, w.ch, w.start + i) = scaled(on, leftOn)
              /\ pixel(s, w.ch, w.start + h + i) = scaled(on, ~leftOn)

C37_TimersFollowRecord ==
    /\ timers.update = cfg.updateinterval
    /\ timers.setgroup = 2 * cfg.updateinterval
    /\ timers.blink = cfg.blinkinterval
    /\ timers.animate = cfg.animateinterval

\* the divisor the render of group g takes the remainder of its step counter by
PeriodOfGroup(s, g) ==
    LET m == geometry(s.cfg, U8(g), U8(tableAt(s.TermState, g, 0)),
                      U8(tableAt(s.TermPct, g, 0)), FALSE, 0)
    IN  IF m.pattern <= MAX_PATTERN THEN modulus(m.pattern, m.groupWidth) ELSE 1

\* C38: for every configuration the setters accept and every pattern 0..12 the
\* divisor of the step counter that the render computes (w, 2w or w div 2 for
\* the patterns 5 and 8..12) is at least 1: no render takes a remainder by
\* zero or by a negative period
C38_PeriodAtLeastOne ==
    [][Rendered => \A g \in Configured(cfg') : PeriodOfGroup(StateAfter, g) >= 1]_vars

RECURSIVE Typed(_, _)
\* the line after the characters chars were typed behind it: a backspace removes
\* the last character, every other character is appended
Typed(line, chars) ==
    LET bs == {i \in 1..Len(chars) : chars[i] = BS}
        k  == IF bs = {} THEN Len(chars) + 1 ELSE CHOOSE i \in bs : \A j \in bs : i <= j
    IN  IF bs = {} THEN line \o chars
        ELSE Typed(Erased(line \o SubSeq(chars, 1, k - 1)), SubSeq(chars, k + 1, Len(chars)))

\* C39: while a line has at most MAX_INPUT_LEN - 2 printable characters the
\* buffer holds exactly the characters typed since the last terminator or
\* cancel, in order, with the backspaces applied, the write index is their
\* number (it never wraps and nothing typed earlier is overwritten), and a
\* terminator hands exactly that text to the dispatcher
C39_LineIsWhatWasTyped ==
    [][\A p \in LineTexts :
          Len(Typed(Pending, p)) <= LineLimit
          => /\ sent' = p => (/\ bufferIndex' = Len(Typed(Pending, p))
                              /\ Pending' = Typed(Pending, p))
             /\ sent' = p \o <<CR>> => lastInput' = Typed(Pending, p)]_vars

PinInUseMsg == "ERROR: GPIO-PIN is already used for channel"

\* C40: from the default assignment on, after any sequence of Cx commands no
\* two channels have the same pin, no channel has the pin of the status LED,
\* and every pin lies in GPIO_PIN_MIN..GPIO_PIN_MAX; a Cx command for a valid
\* channel that names a pin in use is refused and all pins stay as they were
C40_PinsStayDistinct ==
    /\ [](\A i, j \in 1..NUM_CHANNELS_MAX :
             /\ i # j => cfg.channelGPIOpin[i] # cfg.channelGPIOpin[j]
             /\ cfg.channelGPIOpin[i] # CPULED_GPIO
             /\ cfg.channelGPIOpin[i] >= GPIO_PIN_MIN
             /\ cfg.channelGPIOpin[i] <= GPIO_PIN_MAX)
    /\ [][\A ch \in PinChannels, v \in PinValues :
             (sent' = PinLine(ch, v) /\ \E k \in 1..NUM_CHANNELS_MAX : cfg.channelGPIOpin[k] = v)
             => /\ cfg'.channelGPIOpin = cfg.channelGPIOpin
                /\ (ch \in 1..NUM_CHANNELS_MAX /\ v > GPIO_PIN_MIN) => out' = PinInUseMsg]_vars

\* the first channel was moved to pin 10, and the second channel was then
\* refused the same pin
C40_Witness ==
    /\ sent = PinLine(2, 10)
    /\ out = PinInUseMsg
    /\ cfg.channelGPIOpin[1] = 10
    /\ cfg.channelGPIOpin[2] = 3

====
